---- MODULE Spec2Model ----
(***************************************************************************)
(* Model of the selene market-data pipeline.                               *)
(*                                                                         *)
(* MarketDataService.fetch_and_store_market_data drives, for each symbol   *)
(* of the input list, the pipeline fetch -> audit log -> map -> validate   *)
(* -> save -> mark-saved -> update, and sorts the symbol into one of the   *)
(* three result buckets.  The four collaborators (API port, data mapper,   *)
(* market-data repository, audit-log repository) are consumed through      *)
(* abstract ports: every call either returns or raises an exception of one *)
(* of the classes the service's except clauses tell apart.                 *)
(***************************************************************************)
EXTENDS Integers, Sequences, FiniteSets, TLC

VARIABLES
    symbols,            \* argument of fetch_and_store_market_data
    idx,                \* position of the for loop in symbols (1-based)
    pc,                 \* position of the service inside the per-symbol pipeline
    resp,               \* api_response of the current symbol (None or Some)
    cur,                \* market_data entity of the current symbol (None or Some)
    exc,                \* exception propagating out of _process_symbol (None or Some)
    successful,         \* results["successful"]
    failed,             \* results["failed"]
    validation_errors,  \* results["validation_errors"]
    apiLogs,            \* rows of table api_logs, in insertion order
    rows,               \* rows of table market_data, indexed by id
    trace,              \* history: port calls, entity calls and bucket appends, in program order
    escaped,            \* exception that left fetch_and_store_market_data (None or Some)
    config,             \* MarketDataContainer._config (None until loaded)
    pool,               \* PostgresConnectionFactory._pool: "none" (None) or "open"
    result,             \* return value of FetchMarketDataUseCase.execute (None or Some)
    uncaught,           \* exception propagating towards CLIHandler.run (None or Some)
    exit_code,          \* exit status of the process (None while it runs)
    lock,               \* holder of the factory's threading.Lock (None or Some(thread))
    threads,            \* per thread: the call it is in and its position in it
    pools,              \* connection pools created so far, in creation order
    logger_factory      \* class attributes of AppLoggerFactory

(* state of the command-line application around the service *)
(* state of the infrastructure factories shared between threads *)
infraVars == <<lock, threads, pools, logger_factory>>

appVars == <<config, pool, result, uncaught, exit_code, infraVars>>

vars == <<symbols, idx, pc, resp, cur, exc, successful, failed,
          validation_errors, apiLogs, rows, trace, escaped, config, pool,
          result, uncaught, exit_code, lock, threads, pools,
          logger_factory>>

----------------------------------------------------------------------------
(* Bounds of the model *)

MaxSymbols == 2

Symbols == {"AAPL", "BAD"}

(* HTTP status codes the API port answers with, on both sides of [200,300) *)
StatusCodes == {200, 299, 300, 404}

(* Python's None and an optional value *)
None == <<>>
Some(v) == <<v>>
Val(o) == o[1]

RECURSIVE SeqsUpTo(_, _)
SeqsUpTo(S, n) ==
    IF n = 0 THEN {<<>>}
    ELSE LET shorter == SeqsUpTo(S, n - 1)
         IN  shorter \cup {Append(s, x) : s \in {t \in shorter : Len(t) = n - 1}, x \in S}

SymbolLists == SeqsUpTo(Symbols, MaxSymbols)

----------------------------------------------------------------------------
(* Exceptions.  The service tells apart ValueError, KeyError, RuntimeError *)
(* and IOError; "Other" is any class derived from none of them             *)
(* (psycopg2.Error, TypeError, decimal.InvalidOperation, ...).             *)


(* What each port is taken to raise: the API adapter PermissionError (an   *)
(* IOError), the connection factory RuntimeError, the mapper ValueError or *)
(* KeyError, and each of them something of another class                   *)
ApiErrors == {"IOError", "Other"}
MapperErrors == {"ValueError", "KeyError", "Other"}
RepoErrors == {"RuntimeError", "Other"}

(* the audit-log repository is also taken to raise a class the use case    *)
(* catches behind the service                                              *)
LogErrors == RepoErrors \cup {"KeyError"}

NoError == [cls |-> "", msg |-> ""]

PortError(origin, cls) == [cls |-> cls, msg |-> origin \o " failed"]

(* str(e): the message, which KeyError shows as the repr of its argument *)
Str(e) == IF e.cls = "KeyError" THEN "'" \o e.msg \o "'" ELSE e.msg

(* except (ValueError, KeyError) / except RuntimeError / except IOError *)
Caught(cls) == cls \in {"ValueError", "KeyError", "RuntimeError", "IOError"}

----------------------------------------------------------------------------
(* APIResponse value object *)

EmptyPayload == "{}"
QuotePayload == "quote"

(* AlphaVantageAPI.get_market_data: the body is kept for status 200 only *)
APIResponse(status) ==
    [status_code |-> status,
     data |-> IF status = 200 THEN QuotePayload ELSE EmptyPayload]

(* is_successful with the upper bound included *)
is_successful_including_300(r) == 200 <= r.status_code /\ r.status_code <= 300

is_successful(r) == 200 <= r.status_code /\ r.status_code < 300

(* "if not api_response" taking a response without data for a missing one *)
Falsy_when_data_is_empty(o) == o = None \/ Val(o).data = EmptyPayload

(* "if not api_response": APIResponse defines neither __bool__ nor __len__, *)
(* so only None is falsy                                                    *)
Falsy(o) == o = None

----------------------------------------------------------------------------
(* MarketData entity *)

Upper(s) ==
    CASE s = "aapl" -> "AAPL"
      [] s = "bad" -> "BAD"
      [] OTHER -> s

IsBlank(s) == s \in {"", " "}

(* created_at and updated_at are logical times: the number of             *)
(* datetime.now() stamps the entity has received since __post_init__       *)
MarketData(symbol, price, volume) ==
    [id |-> None, symbol |-> symbol, price |-> price, volume |-> volume,
     market_cap |-> None, pe_ratio |-> None, data_timestamp |-> Some(1),
     source |-> "API", status |-> "PENDING", created_at |-> 0,
     updated_at |-> 0]

(* validate without the price rule *)
validate_without_price_rule(e) ==
    (IF IsBlank(e.symbol) THEN <<"Symbol is required">> ELSE <<>>)
    \o (IF e.volume < 0 THEN <<"Volume cannot be negative">> ELSE <<>>)
    \o (IF e.market_cap # None /\ Val(e.market_cap) <= 0
        THEN <<"Market cap must be positive if provided">> ELSE <<>>)
    \o (IF e.pe_ratio # None /\ Val(e.pe_ratio) <= 0
        THEN <<"PE ratio must be positive if provided">> ELSE <<>>)
    \o (IF e.data_timestamp = None
        THEN <<"Data timestamp is required">> ELSE <<>>)

(* validate returning at the first rule that is broken *)
validate_stopping_at_first_error(e) ==
    IF IsBlank(e.symbol) THEN <<"Symbol is required">>
    ELSE IF e.price <= 0 THEN <<"Price must be positive">>
    ELSE IF e.volume < 0 THEN <<"Volume cannot be negative">>
    ELSE IF e.market_cap # None /\ Val(e.market_cap) <= 0
    THEN <<"Market cap must be positive if provided">>
    ELSE IF e.pe_ratio # None /\ Val(e.pe_ratio) <= 0
    THEN <<"PE ratio must be positive if provided">>
    ELSE IF e.data_timestamp = None THEN <<"Data timestamp is required">>
    ELSE <<>>

validate(e) ==
    (IF IsBlank(e.symbol) THEN <<"Symbol is required">> ELSE <<>>)
    \o (IF e.price <= 0 THEN <<"Price must be positive">> ELSE <<>>)
    \o (IF e.volume < 0 THEN <<"Volume cannot be negative">> ELSE <<>>)
    \o (IF e.market_cap # None /\ Val(e.market_cap) <= 0
        THEN <<"Market cap must be positive if provided">> ELSE <<>>)
    \o (IF e.pe_ratio # None /\ Val(e.pe_ratio) <= 0
        THEN <<"PE ratio must be positive if provided">> ELSE <<>>)
    \o (IF e.data_timestamp = None
        THEN <<"Data timestamp is required">> ELSE <<>>)

is_valid(e) == Len(validate(e)) = 0

(* an entity after validate() that marks an entity with errors FAILED *)
after_validate_marking_failed(e) ==
    IF Len(validate(e)) = 0 THEN e ELSE [e EXCEPT !.status = "FAILED"]

(* the entity after validate() or is_valid(): both only read self, no      *)
(* field is assigned                                                       *)
after_validate(e) == e

(* <<price, volume>> of the entities the mapper is seen to produce: one    *)
(* valid, one without price, one with a negative volume                    *)
MappedValues == {<<1, 5>>, <<0, 5>>, <<1, -1>>}

----------------------------------------------------------------------------
(* APILog entity *)

Endpoint(symbol) == "/market/" \o symbol

(* an APILog built without its status_code, which keeps the default None *)
APILog_without_status_code(operation, symbol, status_code, success, error_message, response_data) ==
    [operation |-> operation, endpoint |-> Endpoint(symbol),
     status_code |-> None, success |-> success,
     error_message |-> error_message, response_data |-> response_data]

APILog(operation, symbol, status_code, success, error_message, response_data) ==
    [operation |-> operation, endpoint |-> Endpoint(symbol),
     status_code |-> status_code, success |-> success,
     error_message |-> error_message, response_data |-> response_data]

----------------------------------------------------------------------------
(* Result buckets *)

BareEntry(symbol) == [value |-> symbol]
FailedEntry(symbol, error) == [symbol |-> symbol, error |-> error]
ValidationEntry(symbol, errors) == [symbol |-> symbol, errors |-> errors]

Sym == symbols[idx]

(* One entry of the history: operation op was called for list position pos *)
(* with (or returning) arg, and raised err (NoError when it returned)      *)
Event(op, arg, err) ==
    [pos |-> idx, symbol |-> Sym, op |-> op, arg |-> arg, err |-> err]

----------------------------------------------------------------------------
(* Entity behaviour: the result of a method is the entity after the call  *)
(* and the ValueError it raised (NoError when it returned)                 *)

(* mark_as_validated that sets the status without looking at validate() *)
mark_as_validated_unchecked(e) ==
    [entity |-> [e EXCEPT !.status = "VALIDATED", !.updated_at = @ + 1],
     err |-> NoError]

(* mark_as_validated that stamps the entity and leaves its status *)
mark_as_validated_keeping_status(e) ==
    IF is_valid(e)
    THEN [entity |-> [e EXCEPT !.updated_at = @ + 1], err |-> NoError]
    ELSE [entity |-> e,
          err |-> [cls |-> "ValueError", msg |-> "Cannot validate"]]

mark_as_validated(e) ==
    IF is_valid(e)
    THEN [entity |-> [e EXCEPT !.status = "VALIDATED", !.updated_at = @ + 1],
          err |-> NoError]
    ELSE [entity |-> e,
          err |-> [cls |-> "ValueError", msg |-> "Cannot validate"]]

(* mark_as_saved that accepts a VALIDATED entity but leaves its status *)
mark_as_saved_keeping_status(e) ==
    IF e.status = "VALIDATED"
    THEN [entity |-> [e EXCEPT !.updated_at = @ + 1], err |-> NoError]
    ELSE [entity |-> e,
          err |-> [cls |-> "ValueError",
                   msg |-> "Only validated data can be marked as saved"]]

(* mark_as_saved that stamps updated_at before it tests the status *)
mark_as_saved_stamping_first(e) ==
    IF e.status = "VALIDATED"
    THEN [entity |-> [e EXCEPT !.status = "SAVED", !.updated_at = @ + 1],
          err |-> NoError]
    ELSE [entity |-> [e EXCEPT !.updated_at = @ + 1],
          err |-> [cls |-> "ValueError",
                   msg |-> "Only validated data can be marked as saved"]]

mark_as_saved(e) ==
    IF e.status = "VALIDATED"
    THEN [entity |-> [e EXCEPT !.status = "SAVED", !.updated_at = @ + 1],
          err |-> NoError]
    ELSE [entity |-> e,
          err |-> [cls |-> "ValueError",
                   msg |-> "Only validated data can be marked as saved"]]

----------------------------------------------------------------------------
(* Outcomes of the port calls *)

Returns(v) == [ret |-> v, err |-> NoError]
Raises(origin, cls) == [ret |-> None, err |-> PortError(origin, cls)]
Raised(out) == out.err # NoError

(* get_market_data returns a response, returns nothing, or raises *)
ApiOutcomes ==
    {Returns(Some(APIResponse(s))) : s \in StatusCodes}
    \cup {Returns(None)}
    \cup {Raises("get_market_data", c) : c \in ApiErrors}

(* map_to_market_data returns a PENDING entity or raises *)
MapperOutcomes(symbol) ==
    {Returns(Some(MarketData(Upper(symbol), pv[1], pv[2]))) : pv \in MappedValues}
    \cup {Raises("map_to_market_data", c) : c \in MapperErrors}

(* a repository call commits or raises *)
RepoOutcomes(origin) ==
    {Returns(None)} \cup {Raises(origin, c) : c \in RepoErrors}

(* api_log_repository.save commits or raises *)
LogOutcomes ==
    {Returns(None)} \cup {Raises("api_log_repository.save", c) : c \in LogErrors}

----------------------------------------------------------------------------
(* State changes shared by the steps *)

(* the for loop moves to the next symbol; the locals of _process_symbol die *)
NextSymbol ==
    /\ idx' = idx + 1
    /\ pc' = "loop"
    /\ resp' = None
    /\ cur' = None
    /\ exc' = None

(* an exception leaves the current frame towards the except clauses of the loop *)
Raise(e) ==
    /\ exc' = Some(e)
    /\ pc' = "except"

(* api_log_repository.save(entry) with outcome out: the row is inserted and *)
(* gets the next id, or nothing is stored                                   *)
LogSave(entry, out) ==
    apiLogs' = IF Raised(out)
               THEN apiLogs
               ELSE Append(apiLogs, [id |-> Len(apiLogs) + 1] @@ entry)

Record(events) == trace' = trace \o events

(* the locals and buckets of a service run that has not begun *)
ServiceIdle ==
    /\ idx = 1
    /\ resp = None
    /\ exc = None
    /\ successful = <<>>
    /\ failed = <<>>
    /\ validation_errors = <<>>
    /\ apiLogs = <<>>
    /\ rows = <<>>
    /\ escaped = None

(* no container, no pool, no use-case result, the process is running *)
NotStarted ==
    /\ config = None
    /\ pool = "none"
    /\ result = None
    /\ uncaught = None
    /\ exit_code = None
    /\ lock = None
    /\ threads = <<>>
    /\ pools = <<>>
    /\ logger_factory = [_initialized |-> FALSE, _configured_loggers |-> {}]

----------------------------------------------------------------------------
(* Specification Spec: one call of fetch_and_store_market_data(symbols)   *)

Init ==
    /\ symbols \in SymbolLists
    /\ idx = 1
    /\ pc = "loop"
    /\ resp = None
    /\ cur = None
    /\ exc = None
    /\ successful = <<>>
    /\ failed = <<>>
    /\ validation_errors = <<>>
    /\ apiLogs = <<>>
    /\ rows = <<>>
    /\ trace = <<>>
    /\ escaped = None
    /\ NotStarted

(* _process_symbol, first step: _fetch_api_data and the missing-response test *)
FetchApiData ==
    /\ pc = "loop"
    /\ idx <= Len(symbols)
    /\ \E out \in ApiOutcomes :
         LET call == Event("get_market_data", out.ret, out.err)
         IN  IF Raised(out)
             THEN /\ Raise(out.err)
                  /\ Record(<<call>>)
                  /\ UNCHANGED <<idx, resp, cur, failed>>
             ELSE IF Falsy(out.ret)
             THEN /\ failed' = Append(failed, BareEntry(Sym))
                  /\ Record(<<call, Event("failed.append", Some(BareEntry(Sym)),
                                          NoError)>>)
                  /\ NextSymbol
             ELSE /\ resp' = out.ret
                  /\ pc' = "log_api_call"
                  /\ Record(<<call>>)
                  /\ UNCHANGED <<idx, cur, exc, failed>>
    /\ UNCHANGED <<symbols, successful, validation_errors, apiLogs, rows,
                   escaped>>
    /\ UNCHANGED appVars

(* _log_api_call, then the is_successful test of _process_symbol *)
LogApiCall ==
    /\ pc = "log_api_call"
    /\ LET r == Val(resp)
           entry == APILog("fetch_market_data", Sym, Some(r.status_code),
                           is_successful(r), None, r.data)
       IN  \E out \in LogOutcomes :
             /\ LogSave(entry, out)
             /\ Record(<<Event("api_log_repository.save", Some(entry), out.err)>>)
             /\ IF Raised(out)
                THEN Raise(out.err)
                ELSE /\ pc' = IF is_successful(r) THEN "map" ELSE "api_error"
                     /\ UNCHANGED exc
    /\ UNCHANGED <<symbols, idx, resp, cur, successful, failed,
                   validation_errors, rows, escaped>>
    /\ UNCHANGED appVars

(* _handle_api_error *)
HandleApiError ==
    /\ pc = "api_error"
    /\ LET entry == FailedEntry(Sym, "API returned "
                                     \o ToString(Val(resp).status_code))
       IN  /\ failed' = Append(failed, entry)
           /\ Record(<<Event("failed.append", Some(entry), NoError)>>)
    /\ NextSymbol
    /\ UNCHANGED <<symbols, successful, validation_errors, apiLogs, rows,
                   escaped>>
    /\ UNCHANGED appVars

(* _map_and_validate_data, first half: data_mapper.map_to_market_data;     *)
(* a ValueError is caught by the except clause of _process_symbol          *)
MapToMarketData ==
    /\ pc = "map"
    /\ \E out \in MapperOutcomes(Sym) :
         /\ Record(<<Event("map_to_market_data", out.ret, out.err)>>)
         /\ IF Raised(out)
            THEN /\ exc' = Some(out.err)
                 /\ pc' = IF out.err.cls = "ValueError"
                          THEN "mapping_error" ELSE "except"
                 /\ UNCHANGED cur
            ELSE /\ cur' = out.ret
                 /\ pc' = "validate"
                 /\ UNCHANGED exc
    /\ UNCHANGED <<symbols, idx, resp, successful, failed, validation_errors,
                   apiLogs, rows, escaped>>
    /\ UNCHANGED appVars

(* _map_and_validate_data, second half: business validation and            *)
(* mark_as_validated, whose ValueError is caught like the mapper's         *)
ValidateData ==
    /\ pc = "validate"
    /\ LET e == Val(cur)
           m == mark_as_validated(e)
           entry == ValidationEntry(Sym, validate(e))
       IN  IF ~is_valid(e)
           THEN /\ validation_errors' = Append(validation_errors, entry)
                /\ Record(<<Event("validation_errors.append", Some(entry),
                                  NoError)>>)
                /\ NextSymbol
           ELSE /\ Record(<<Event("mark_as_validated", Some(m.entity), m.err)>>)
                /\ cur' = Some(m.entity)
                /\ IF m.err # NoError
                   THEN /\ exc' = Some(m.err)
                        /\ pc' = "mapping_error"
                   ELSE /\ pc' = "save"
                        /\ UNCHANGED exc
                /\ UNCHANGED <<idx, resp, validation_errors>>
    /\ UNCHANGED <<symbols, successful, failed, apiLogs, rows, escaped>>
    /\ UNCHANGED appVars

(* _handle_mapping_error; an exception of its audit-log write leaves        *)
(* _process_symbol                                                          *)
HandleMappingError ==
    /\ pc = "mapping_error"
    /\ LET msg == Str(Val(exc))
           bucketed == FailedEntry(Sym, "Data mapping failed: " \o msg)
           entry == APILog("data_mapping", Sym, None, FALSE, Some(msg),
                           Val(resp).data)
       IN  /\ failed' = Append(failed, bucketed)
           /\ \E out \in LogOutcomes :
                /\ LogSave(entry, out)
                /\ Record(<<Event("failed.append", Some(bucketed), NoError),
                            Event("api_log_repository.save", Some(entry),
                                  out.err)>>)
                /\ IF Raised(out)
                   THEN /\ Raise(out.err)
                        /\ UNCHANGED <<idx, resp, cur>>
                   ELSE NextSymbol
    /\ UNCHANGED <<symbols, successful, validation_errors, rows, escaped>>
    /\ UNCHANGED appVars

(* _save_market_data, first call: market_data_repository.save inserts the  *)
(* row and assigns the id                                                  *)
SaveMarketData ==
    /\ pc = "save"
    /\ \E out \in RepoOutcomes("market_data_repository.save") :
         /\ Record(<<Event("repository.save", cur, out.err)>>)
         /\ IF Raised(out)
            THEN /\ Raise(out.err)
                 /\ UNCHANGED <<cur, rows>>
            ELSE LET saved == [Val(cur) EXCEPT !.id = Some(Len(rows) + 1)]
                 IN  /\ rows' = Append(rows, saved)
                     /\ cur' = Some(saved)
                     /\ pc' = "mark_saved"
                     /\ UNCHANGED exc
    /\ UNCHANGED <<symbols, idx, resp, successful, failed, validation_errors,
                   apiLogs, escaped>>
    /\ UNCHANGED appVars

(* _save_market_data, second call: saved_data.mark_as_saved() *)
MarkAsSaved ==
    /\ pc = "mark_saved"
    /\ LET m == mark_as_saved(Val(cur))
       IN  /\ Record(<<Event("mark_as_saved", Some(m.entity), m.err)>>)
           /\ cur' = Some(m.entity)
           /\ IF m.err # NoError
              THEN Raise(m.err)
              ELSE /\ pc' = "update"
                   /\ UNCHANGED exc
    /\ UNCHANGED <<symbols, idx, resp, successful, failed, validation_errors,
                   apiLogs, rows, escaped>>
    /\ UNCHANGED appVars

(* market_data_repository.update(e) with outcome out: raises ValueError    *)
(* for an entity without id before touching the database                   *)
UpdateOutcome(e, out) ==
    IF e.id = None
    THEN [ret |-> None,
          err |-> [cls |-> "ValueError",
                   msg |-> "Cannot update MarketData without ID"]]
    ELSE out

(* _save_market_data, last calls: market_data_repository.update and the    *)
(* append to successful                                                     *)
UpdateMarketData ==
    /\ pc = "update"
    /\ \E o \in RepoOutcomes("market_data_repository.update") :
         LET e == Val(cur)
             out == UpdateOutcome(e, o)
             call == Event("repository.update", cur, out.err)
         IN  IF Raised(out)
             THEN /\ Raise(out.err)
                  /\ Record(<<call>>)
                  /\ UNCHANGED <<idx, resp, cur, rows, successful>>
             ELSE /\ rows' = [i \in DOMAIN rows |->
                                IF i = Val(e.id) THEN e ELSE rows[i]]
                  /\ successful' = Append(successful, e)
                  /\ Record(<<call, Event("successful.append", cur, NoError)>>)
                  /\ NextSymbol
    /\ UNCHANGED <<symbols, failed, validation_errors, apiLogs, escaped>>
    /\ UNCHANGED appVars

(* the except clauses of the loop and _handle_unexpected_error; an          *)
(* exception of its audit-log write leaves fetch_and_store_market_data      *)
HandleUnexpectedError ==
    /\ pc = "except"
    /\ Caught(Val(exc).cls)
    /\ LET msg == Str(Val(exc))
           bucketed == FailedEntry(Sym, msg)
           entry == APILog("fetch_and_store", Sym, None, FALSE, Some(msg),
                           EmptyPayload)
       IN  /\ failed' = Append(failed, bucketed)
           /\ \E out \in LogOutcomes :
                /\ LogSave(entry, out)
                /\ Record(<<Event("failed.append", Some(bucketed), NoError),
                            Event("api_log_repository.save", Some(entry),
                                  out.err)>>)
                /\ IF Raised(out)
                   THEN /\ escaped' = Some(out.err)
                        /\ pc' = "raised"
                        /\ UNCHANGED <<idx, resp, cur, exc>>
                   ELSE /\ NextSymbol
                        /\ UNCHANGED escaped
    /\ UNCHANGED <<symbols, successful, validation_errors, rows>>
    /\ UNCHANGED appVars

(* no except clause of the loop matches: the exception leaves               *)
(* fetch_and_store_market_data                                              *)
Propagate ==
    /\ pc = "except"
    /\ ~Caught(Val(exc).cls)
    /\ escaped' = exc
    /\ pc' = "raised"
    /\ UNCHANGED <<symbols, idx, resp, cur, exc, successful, failed,
                   validation_errors, apiLogs, rows, trace>>
    /\ UNCHANGED appVars

(* the loop is exhausted: return results *)
Return ==
    /\ pc = "loop"
    /\ idx > Len(symbols)
    /\ pc' = "returned"
    /\ UNCHANGED <<symbols, idx, resp, cur, exc, successful, failed,
                   validation_errors, apiLogs, rows, trace, escaped>>
    /\ UNCHANGED appVars

Next ==
    \/ FetchApiData
    \/ LogApiCall
    \/ HandleApiError
    \/ MapToMarketData
    \/ ValidateData
    \/ HandleMappingError
    \/ SaveMarketData
    \/ MarkAsSaved
    \/ UpdateMarketData
    \/ HandleUnexpectedError
    \/ Propagate
    \/ Return

Spec == Init /\ [][Next]_vars

----------------------------------------------------------------------------
(* Reading the history *)

Positions == 1..Len(symbols)
TraceIdx == 1..Len(trace)

RunEnded == pc \in {"returned", "raised"}

AppendOps == {"successful.append", "failed.append", "validation_errors.append"}
PersistOps == {"repository.save", "repository.update"}

At(p, ops) == {j \in TraceIdx : trace[j].pos = p /\ trace[j].op \in ops}

Args(op) ==
    LET evs == SelectSeq(trace, LAMBDA ev : ev.op = op)
    IN  [k \in 1..Len(evs) |-> Val(evs[k].arg)]

IsLog(ev, operation) ==
    /\ ev.op = "api_log_repository.save"
    /\ Val(ev.arg).operation = operation

LogsAt(p, operation) ==
    {j \in TraceIdx : trace[j].pos = p /\ IsLog(trace[j], operation)}

(* the history agrees with the state it is a history of *)
HistoryMirrorsState ==
    /\ successful = Args("successful.append")
    /\ failed = Args("failed.append")
    /\ validation_errors = Args("validation_errors.append")
    /\ Len(apiLogs) = Cardinality({j \in TraceIdx :
                          trace[j].op = "api_log_repository.save"
                          /\ trace[j].err = NoError})
    /\ \A k \in 1..Len(apiLogs) : apiLogs[k].id = k
    /\ \A k \in 1..Len(rows) : rows[k].id = Some(k)

----------------------------------------------------------------------------
(* C1: after a run of fetch_and_store_market_data that returns, the three  *)
(* buckets together hold exactly one entry per position of the symbol      *)
(* list: len(successful) + len(failed) + len(validation_errors) =          *)
(* len(symbols), whatever the ports did.                                   *)
C1_OneEntryPerSymbol ==
    pc = "returned" =>
        Len(successful) + Len(failed) + Len(validation_errors) = Len(symbols)

(* C2: no exception leaves fetch_and_store_market_data, whichever port     *)
(* raised and wherever (an error handler's audit-log write included).      *)
C2_NoExceptionEscapes ==
    pc # "raised" /\ escaped = None

(* C3: the get_market_data calls of one run are the symbol list: position  *)
(* i is fetched once, in list order, nothing is skipped when the run ends, *)
(* and everything done for position i precedes the call for position i+1.  *)
C3_CallsAreTheSymbolList ==
    LET calls == SelectSeq(trace, LAMBDA ev : ev.op = "get_market_data")
    IN  /\ \A k \in 1..Len(calls) : calls[k].pos = k /\ calls[k].symbol = symbols[k]
        /\ \A j \in TraceIdx :
             /\ j > 1 => trace[j - 1].pos <= trace[j].pos
             /\ trace[j].op = "get_market_data" =>
                  \A h \in 1..(j - 1) : trace[h].pos < trace[j].pos
        /\ RunEnded => [k \in 1..Len(calls) |-> calls[k].symbol] = symbols

NotSuccessfulAt(i) ==
    /\ trace[i].op = "get_market_data"
    /\ trace[i].arg # None
    /\ ~(200 <= Val(trace[i].arg).status_code
         /\ Val(trace[i].arg).status_code < 300)

ApiReturned(i) ==
    FailedEntry(trace[i].symbol,
                "API returned " \o ToString(Val(trace[i].arg).status_code))

MappingErrorAt(i) ==
    /\ trace[i].op = "map_to_market_data"
    /\ trace[i].err.cls = "ValueError"

(* C6: in the result of a run, a symbol whose mapper call raised a mapping *)
(* error has the one entry {symbol, error: "Data mapping failed:           *)
(* <message>"} in failed and exactly two audit logs: the                   *)
(* "fetch_market_data" log and a "data_mapping" log with success false,    *)
(* error_message = message and response_data = the original payload;      *)
(* nothing is persisted for it.                                            *)
C6_MappingErrorTwoLogs ==
    \A i \in TraceIdx :
        (MappingErrorAt(i) /\ pc = "returned") =>
            LET p == trace[i].pos
                msg == trace[i].err.msg
                r == Val(trace[i - 2].arg)
                logs == At(p, {"api_log_repository.save"})
            IN  /\ At(p, PersistOps) = {}
                /\ \A j \in At(p, AppendOps) :
                     /\ trace[j].op = "failed.append"
                     /\ trace[j].arg =
                          Some(FailedEntry(symbols[p],
                                           "Data mapping failed: " \o msg))
                /\ Cardinality(At(p, AppendOps)) = 1
                /\ Cardinality(logs) = 2
                /\ Cardinality(LogsAt(p, "fetch_market_data")) = 1
                /\ \E j \in logs :
                     trace[j].arg =
                        Some(APILog("data_mapping", symbols[p], None, FALSE,
                                    Some(msg), r.data))

(* an entity that breaks a business rule the mapper's entities can break *)
BreaksRule(e) == e.price <= 0 \/ e.volume < 0

(* C7: when the mapper returns an entity that fails validation, the symbol *)
(* gets one entry {symbol, errors: <non-empty list>} in validation_errors  *)
(* and none in failed, the entity stays PENDING, and neither               *)
(* repository.save nor repository.update is called for it.                 *)
C7_InvalidEntityNotPersisted ==
    /\ validation_errors = Args("validation_errors.append")
    /\ \A i \in TraceIdx :
         (/\ trace[i].op = "map_to_market_data"
          /\ trace[i].arg # None
          /\ BreaksRule(Val(trace[i].arg))) =>
            LET p == trace[i].pos
            IN  \/ /\ i = Len(trace)
                   /\ idx = p
                   /\ pc = "validate"
                   /\ Val(cur).status = "PENDING"
                \/ /\ i < Len(trace)
                   /\ p < idx
                   /\ trace[i + 1].pos = p
                   /\ trace[i + 1].op = "validation_errors.append"
                   /\ Val(trace[i + 1].arg).symbol = symbols[p]
                   /\ Len(Val(trace[i + 1].arg).errors) > 0
                   /\ At(p, AppendOps) = {i + 1}
                   /\ At(p, PersistOps \cup {"mark_as_validated", "mark_as_saved"})
                        = {}
                   /\ \A j \in TraceIdx : j > i + 1 => trace[j].pos # p

(* C7 happens: the run returned with a symbol in validation_errors for its *)
(* price and nothing stored                                                *)
C7_Witness ==
    /\ pc = "returned"
    /\ validation_errors =
         <<ValidationEntry("AAPL", <<"Price must be positive">>)>>
    /\ failed = <<>>
    /\ rows = <<>>

(* the steps of the persisting half of the pipeline, in program order *)
PersistSteps ==
    <<"mark_as_validated", "repository.save", "mark_as_saved",
      "repository.update", "successful.append">>

StepsAt(p) ==
    LET evs == SelectSeq(trace, LAMBDA ev :
                   ev.pos = p /\ \E k \in 1..Len(PersistSteps) : ev.op = PersistSteps[k])
    IN  [k \in 1..Len(evs) |-> evs[k].op]

IsPrefix(a, b) == Len(a) <= Len(b) /\ a = SubSeq(b, 1, Len(a))

(* C8: for a symbol that maps and validates the service performs, in this  *)
(* order and each at most once, mark_as_validated (PENDING -> VALIDATED),  *)
(* repository.save (assigns the id), mark_as_saved (VALIDATED -> SAVED),   *)
(* repository.update and the append to successful, all five unless a call  *)
(* raised; every entity in successful has status SAVED and an id, and the  *)
(* row stored under that id is the entity, with status SAVED.              *)
C8_PersistInOrderThenSaved ==
    /\ \A k \in 1..Len(successful) :
         LET e == successful[k]
         IN  /\ e.status = "SAVED"
             /\ e.id # None
             /\ Val(e.id) \in 1..Len(rows)
             /\ rows[Val(e.id)] = e
    /\ \A p \in Positions : IsPrefix(StepsAt(p), PersistSteps)
    /\ \A i \in TraceIdx :
         LET ev == trace[i]
         IN  /\ (ev.op = "map_to_market_data" /\ ev.arg # None) =>
                    /\ Val(ev.arg).status = "PENDING"
                    /\ Val(ev.arg).id = None
                    /\ (/\ ~BreaksRule(Val(ev.arg))
                        /\ ev.pos < idx
                        /\ \A j \in TraceIdx :
                             trace[j].pos = ev.pos => trace[j].err = NoError)
                       => StepsAt(ev.pos) = PersistSteps
             /\ ev.op = "mark_as_validated" =>
                    Val(ev.arg).status = "VALIDATED" /\ Val(ev.arg).id = None
             /\ ev.op = "repository.save" =>
                    Val(ev.arg).status = "VALIDATED" /\ Val(ev.arg).id = None
             /\ (ev.op = "repository.save" /\ ev.err = NoError) =>
                    \/ i = Len(trace) /\ idx = ev.pos /\ pc = "mark_saved"
                    \/ /\ i < Len(trace)
                       /\ trace[i + 1].op = "mark_as_saved"
                       /\ Val(trace[i + 1].arg).id # None
                       /\ Val(trace[i + 1].arg).status = "SAVED"
             /\ ev.op = "repository.update" =>
                    Val(ev.arg).status = "SAVED" /\ Val(ev.arg).id # None
             /\ ev.op = "successful.append" =>
                    /\ trace[i - 1].op = "repository.update"
                    /\ trace[i - 1].arg = ev.arg

(* C8 happens: the run returned with both symbols saved under ids 1 and 2 *)
C8_Witness ==
    /\ pc = "returned"
    /\ Len(successful) = 2
    /\ successful[1].id = Some(1)
    /\ successful[2].id = Some(2)
    /\ \A k \in 1..2 : rows[k].status = "SAVED"

(* C9: an exception raised in a symbol's pipeline by anything but the      *)
(* mapper's mapping error (API call, audit-log write, save, mark_as_saved, *)
(* update) is caught by the loop: once the loop has left the symbol, or    *)
(* the run has ended, the symbol has exactly one entry {symbol, error:     *)
(* <message>} in failed and exactly one audit log with operation           *)
(* "fetch_and_store", success false, error_message = message and no        *)
(* response_data.                                                          *)
C9_PipelineErrorsHandled ==
    \A i \in TraceIdx :
        (/\ trace[i].err # NoError
         /\ ~MappingErrorAt(i)
         /\ trace[i].op # "mark_as_validated"
         /\ ~IsLog(trace[i], "fetch_and_store")
         /\ (trace[i].pos < idx \/ RunEnded)) =>
            LET p == trace[i].pos
                msg == Str(trace[i].err)
            IN  /\ Cardinality({j \in At(p, {"failed.append"}) :
                        trace[j].arg = Some(FailedEntry(symbols[p], msg))}) = 1
                /\ Cardinality(LogsAt(p, "fetch_and_store")) = 1
                /\ \A j \in LogsAt(p, "fetch_and_store") :
                     trace[j].arg =
                        Some(APILog("fetch_and_store", symbols[p], None, FALSE,
                                    Some(msg), EmptyPayload))

(* C10: when repository.save or repository.update raises for a symbol, the *)
(* symbol is recorded in failed (and in no other bucket) and the run goes  *)
(* on: when the run has ended, the next symbol of the list, if any, has    *)
(* been fetched.                                                           *)
C10_RepositoryFailureIsolated ==
    \A i \in TraceIdx :
        (trace[i].op \in PersistOps /\ trace[i].err # NoError /\ RunEnded) =>
            LET p == trace[i].pos
            IN  /\ \E j \in At(p, {"failed.append"}) :
                     trace[j].arg =
                        Some(FailedEntry(symbols[p], Str(trace[i].err)))
                /\ At(p, {"successful.append", "validation_errors.append"}) = {}
                /\ p < Len(symbols) => At(p + 1, {"get_market_data"}) # {}

(* C11: when get_market_data returns no response object, the symbol gets   *)
(* exactly one entry in failed (the bare symbol), no audit log is handed   *)
(* to the audit-log repository and neither the mapper nor a repository is  *)
(* called for it; a response object that was returned, whatever its status *)
(* and also with empty data, is never taken for a missing one: its         *)
(* "fetch_market_data" log is the next thing that happens.                 *)
C11_MissingResponseFailsUnlogged ==
    \A i \in TraceIdx :
        (trace[i].op = "get_market_data" /\ trace[i].err = NoError) =>
            LET p == trace[i].pos
            IN  IF trace[i].arg = None
                THEN /\ i < Len(trace)
                     /\ trace[i + 1].op = "failed.append"
                     /\ trace[i + 1].pos = p
                     /\ trace[i + 1].arg = Some(BareEntry(symbols[p]))
                     /\ {j \in TraceIdx : trace[j].pos = p} = {i, i + 1}
                     /\ p < idx
                ELSE /\ \A j \in At(p, {"failed.append"}) :
                          trace[j].arg # Some(BareEntry(symbols[p]))
                     /\ \/ i = Len(trace) /\ idx = p /\ pc = "log_api_call"
                        \/ /\ i < Len(trace)
                           /\ trace[i + 1].pos = p
                           /\ IsLog(trace[i + 1], "fetch_market_data")

(* C11 happens: the run returned after one symbol without response, which  *)
(* is the bare entry of failed, and one answered with empty data, which    *)
(* was logged                                                               *)
C11_Witness ==
    /\ pc = "returned"
    /\ Len(symbols) = 2
    /\ trace[1].op = "get_market_data"
    /\ trace[1].arg = None
    /\ trace[1].err = NoError
    /\ failed[1] = BareEntry(symbols[1])
    /\ \E i \in TraceIdx :
         /\ trace[i].pos = 2
         /\ trace[i].op = "get_market_data"
         /\ trace[i].arg # None
         /\ Val(trace[i].arg).data = EmptyPayload
         /\ LogsAt(2, "fetch_market_data") # {}

----------------------------------------------------------------------------
(* Specification SpecEntity: one MarketData entity, in any status and with *)
(* any combination of kept and broken business rules, receives up to       *)
(* MaxCalls calls of its methods and assignments to its price field.       *)
(* cur is the entity, trace the history of the calls.                      *)

MaxCalls == 3

DataStatus == {"PENDING", "VALIDATED", "FAILED", "SAVED"}

Prices == {0, 1}

Entities ==
    {[MarketData(s, p, v) EXCEPT !.market_cap = mc, !.pe_ratio = pe,
                                 !.data_timestamp = ts, !.status = st] :
        s \in {"AAPL", " "}, p \in Prices, v \in {-1, 0},
        mc \in {None, Some(0), Some(1)}, pe \in {None, Some(-1), Some(1)},
        ts \in {None, Some(1)}, st \in DataStatus}

(* One entry of the history: method op was called on the entity before,    *)
(* left it as after, and returned ret or raised err                        *)
Call(op, before, after, ret, err) ==
    [op |-> op, before |-> before, after |-> after, ret |-> ret, err |-> err]

InitEntity ==
    /\ cur \in {Some(e) : e \in Entities}
    /\ pc = "entity"
    /\ symbols = <<>>
    /\ trace = <<>>
    /\ ServiceIdle
    /\ NotStarted

EntityFrame ==
    /\ Len(trace) < MaxCalls
    /\ pc = "entity"
    /\ UNCHANGED <<symbols, idx, pc, resp, exc, successful, failed,
                   validation_errors, apiLogs, rows, escaped>>
    /\ UNCHANGED appVars

(* entity.validate() *)
EntityValidate ==
    /\ EntityFrame
    /\ LET e == Val(cur)
       IN  /\ cur' = Some(after_validate(e))
           /\ trace' = Append(trace, Call("validate", e, after_validate(e),
                                          Some(validate(e)), NoError))

(* entity.is_valid() *)
EntityIsValid ==
    /\ EntityFrame
    /\ LET e == Val(cur)
       IN  /\ cur' = Some(after_validate(e))
           /\ trace' = Append(trace, Call("is_valid", e, after_validate(e),
                                          Some(is_valid(e)), NoError))

(* entity.mark_as_validated() *)
EntityMarkAsValidated ==
    /\ EntityFrame
    /\ LET e == Val(cur)
           m == mark_as_validated(e)
       IN  /\ cur' = Some(m.entity)
           /\ trace' = Append(trace, Call("mark_as_validated", e, m.entity,
                                          None, m.err))

(* entity.mark_as_saved() *)
EntityMarkAsSaved ==
    /\ EntityFrame
    /\ LET e == Val(cur)
           m == mark_as_saved(e)
       IN  /\ cur' = Some(m.entity)
           /\ trace' = Append(trace, Call("mark_as_saved", e, m.entity,
                                          None, m.err))

(* entity.price = p: the dataclass is not frozen *)
EntityAssignPrice ==
    /\ EntityFrame
    /\ \E p \in Prices :
         LET e == Val(cur)
             after == [e EXCEPT !.price = p]
         IN  /\ cur' = Some(after)
             /\ trace' = Append(trace, Call("price.setter", e, after, None,
                                            NoError))

NextEntity ==
    \/ EntityValidate
    \/ EntityIsValid
    \/ EntityMarkAsValidated
    \/ EntityMarkAsSaved
    \/ EntityAssignPrice

SpecEntity == InitEntity /\ [][NextEntity]_vars

(* the history of an entity is chained: each call starts where the last    *)
(* one ended, and the entity is where the last call left it                *)
CallsAreChained ==
    pc = "entity" =>
        /\ \A i \in 1..(Len(trace) - 1) : trace[i + 1].before = trace[i].after
        /\ Len(trace) > 0 => Val(cur) = trace[Len(trace)].after

(* the calls of method op in the history of the entity *)
CallsOf(op) == {i \in TraceIdx : trace[i].op = op}

(* the business rules of the entity, as the specification lists them *)
Rules == {"symbol", "price", "volume", "market_cap", "pe_ratio", "data_timestamp"}

RuleMessage(r) ==
    CASE r = "symbol" -> "Symbol is required"
      [] r = "price" -> "Price must be positive"
      [] r = "volume" -> "Volume cannot be negative"
      [] r = "market_cap" -> "Market cap must be positive if provided"
      [] r = "pe_ratio" -> "PE ratio must be positive if provided"
      [] r = "data_timestamp" -> "Data timestamp is required"

Violates(e, r) ==
    CASE r = "symbol" -> e.symbol \in {"", " "}
      [] r = "price" -> ~(e.price > 0)
      [] r = "volume" -> ~(e.volume >= 0)
      [] r = "market_cap" -> e.market_cap # None /\ ~(e.market_cap[1] > 0)
      [] r = "pe_ratio" -> e.pe_ratio # None /\ ~(e.pe_ratio[1] > 0)
      [] r = "data_timestamp" -> e.data_timestamp = None

Violated(e) == {r \in Rules : Violates(e, r)}

(* C12: over any sequence of mark_as_validated and mark_as_saved calls on  *)
(* an entity, from any starting status, a call either leaves the status    *)
(* or moves it PENDING -> VALIDATED or VALIDATED -> SAVED; in particular   *)
(* an entity that is SAVED never returns to VALIDATED or PENDING.          *)
C12_StatusOnlyAdvances ==
    pc = "entity" =>
        \A i \in CallsOf("mark_as_validated") \cup CallsOf("mark_as_saved") :
            LET old == trace[i].before.status
                new == trace[i].after.status
            IN  \/ old = new
                \/ old = "PENDING" /\ new = "VALIDATED"
                \/ old = "VALIDATED" /\ new = "SAVED"

(* C13: mark_as_saved on an entity that is not VALIDATED raises ValueError *)
(* "Only validated data can be marked as saved" and leaves every field,    *)
(* status and updated_at included, as it was; on a VALIDATED entity it     *)
(* returns and the status is SAVED, the data fields being kept.            *)
C13_MarkAsSavedNeedsValidated ==
    pc = "entity" =>
        \A i \in CallsOf("mark_as_saved") :
            LET b == trace[i].before
                a == trace[i].after
            IN  IF b.status = "VALIDATED"
                THEN /\ trace[i].err = NoError
                     /\ a.status = "SAVED"
                     /\ a = [b EXCEPT !.status = "SAVED",
                                      !.updated_at = a.updated_at]
                ELSE /\ trace[i].err.cls = "ValueError"
                     /\ trace[i].err.msg =
                          "Only validated data can be marked as saved"
                     /\ a = b

(* C13 happens: mark_as_saved made a VALIDATED entity SAVED, and a second  *)
(* mark_as_saved on the SAVED entity raised and left it as it was          *)
C13_Witness ==
    /\ pc = "entity"
    /\ Len(trace) = 2
    /\ trace[1].op = "mark_as_saved"
    /\ trace[1].err = NoError
    /\ trace[1].after.status = "SAVED"
    /\ trace[2].op = "mark_as_saved"
    /\ trace[2].err # NoError
    /\ Val(cur).status = "SAVED"
    /\ Val(cur).updated_at = 1

(* C14: mark_as_validated returns, with status VALIDATED, exactly when the *)
(* entity breaks no rule at the time of the call (validate() called right  *)
(* before it returned the empty list); on an entity that breaks a rule it  *)
(* raises ValueError and leaves the entity, its status included, as it     *)
(* was.                                                                    *)
C14_MarkAsValidatedIffValid ==
    pc = "entity" =>
        \A i \in CallsOf("mark_as_validated") :
            LET b == trace[i].before
                a == trace[i].after
            IN  /\ IF Violated(b) = {}
                   THEN trace[i].err = NoError /\ a.status = "VALIDATED"
                   ELSE trace[i].err.cls = "ValueError" /\ a = b
                /\ (i > 1 /\ trace[i - 1].op = "validate") =>
                     (trace[i].err = NoError <=> trace[i - 1].ret = Some(<<>>))

(* C14 happens: mark_as_validated failed on an entity without price, the   *)
(* price was then set, and the next mark_as_validated made it VALIDATED    *)
C14_Witness ==
    /\ pc = "entity"
    /\ Len(trace) = 3
    /\ trace[1].op = "mark_as_validated"
    /\ trace[1].err # NoError
    /\ trace[1].before.price = 0
    /\ trace[1].after.status = "PENDING"
    /\ trace[2].op = "price.setter"
    /\ trace[3].op = "mark_as_validated"
    /\ trace[3].err = NoError
    /\ Val(cur).status = "VALIDATED"

----------------------------------------------------------------------------
(* Specification SpecFetch: the process running "selene fetch": CLIHandler *)
(* .run, MarketDataContainer.create_use_case, FetchMarketDataUseCase       *)
(* .execute around the service run of Spec, container.cleanup and the exit *)
(* status.                                                                 *)
(*                                                                         *)
(* Two attributes are read by this code and assigned by no code of the     *)
(* repository: config.api.api_key (container) and market_data_service      *)
(* .symbols (use case).  The lookup is modelled with both outcomes:        *)
(* AttributeError, which is what the objects built by APIConfig and        *)
(* MarketDataService.__init__ give, or a value.                            *)

RECURSIVE GCD(_, _)
GCD(a, b) == IF b = 0 THEN a ELSE GCD(b, a % b)

(* the float n / d, kept as the fraction in lowest terms *)
TrueDiv(n, d) == [num |-> n \div GCD(n, d), den |-> d \div GCD(n, d)]

(* the int 0 *)
Zero == [num |-> 0, den |-> 1]

(* execute, the summarising half: results of the service plus the summary *)
SummaryPayload(syms, ok, bad, invalid) ==
    [error |-> None,
     successful |-> ok,
     failed |-> bad,
     validation_errors |-> invalid,
     summary |->
        [total_requested |-> Len(syms),
         successful_count |-> Some(Len(ok)),
         failed_count |-> Some(Len(bad)),
         validation_error_count |-> Some(Len(invalid)),
         success_rate |-> IF Len(syms) # 0
                          THEN TrueDiv(Len(ok), Len(syms)) ELSE Zero]]

(* execute, the except clause: str(e), empty buckets and a summary of two  *)
(* keys                                                                    *)
ErrorPayload(syms, e) ==
    [error |-> Some(Str(e)),
     successful |-> <<>>,
     failed |-> <<>>,
     validation_errors |-> <<>>,
     summary |->
        [total_requested |-> Len(syms),
         successful_count |-> None,
         failed_count |-> None,
         validation_error_count |-> None,
         success_rate |-> Zero]]

(* except (KeyError, ValueError) of execute, without KeyError *)
ExecuteCatches_ValueError_only(cls) == cls = "ValueError"

(* except (KeyError, ValueError) of execute *)
ExecuteCatches(cls) == cls \in {"KeyError", "ValueError"}

(* the except clauses of run taking every error for one to report and     *)
(* carry on after                                                          *)
ExitCodeFor_reporting_only(cls) ==
    CASE cls = "FileNotFoundError" -> 1
      [] cls = "ValueError" -> 0
      [] cls \in {"IOError", "ConnectionError"} -> 0
      [] OTHER -> 0

(* the except clauses of run, in their order: FileNotFoundError 1,         *)
(* ValueError 2, OSError 3; an exception of another class leaves run and   *)
(* main, and the interpreter ends with status 1                            *)
ExitCodeFor(cls) ==
    CASE cls = "FileNotFoundError" -> 1
      [] cls = "ValueError" -> 2
      [] cls \in {"IOError", "ConnectionError"} -> 3
      [] OTHER -> 1

(* --config as _validate_arguments sees it *)
ConfigArgs == {"absent", "no_such_file", "file"}

(* what authenticate() does: True, False, or one of its two exceptions *)
AuthOutcomes ==
    {[ok |-> TRUE, err |-> NoError], [ok |-> FALSE, err |-> NoError]}
    \cup {[ok |-> FALSE, err |-> PortError("authenticate", c)] :
             c \in {"ConnectionError", "RuntimeError"}}

(* an exception reaches the except clauses of run or leaves run *)
Abort(e) ==
    /\ uncaught' = Some(e)
    /\ pc' = "cli_except"

serviceVars == <<symbols, idx, resp, cur, exc, successful, failed,
                 validation_errors, apiLogs, rows, trace, escaped>>

InitFetch ==
    /\ pc = "cli_run"
    /\ symbols = <<>>
    /\ cur = None
    /\ trace = <<>>
    /\ ServiceIdle
    /\ NotStarted

(* run up to _route_command: _validate_arguments *)
CliRun ==
    /\ pc = "cli_run"
    /\ \E arg \in ConfigArgs :
         CASE arg = "absent" ->
                Abort([cls |-> "ValueError",
                       msg |-> "Configuration file is required"])
           [] arg = "no_such_file" ->
                Abort([cls |-> "FileNotFoundError",
                       msg |-> "Configuration file not found"])
           [] arg = "file" ->
                /\ pc' = "load_config"
                /\ UNCHANGED uncaught
    /\ UNCHANGED <<config, pool, result, exit_code>>
    /\ UNCHANGED <<serviceVars, infraVars>>

(* create_use_case, self.config: load_config returns the configuration or  *)
(* the property raises ConfigurationError                                  *)
LoadConfig ==
    /\ pc = "load_config"
    /\ \E loaded \in BOOLEAN :
         IF loaded
         THEN /\ config' = Some("MarketDataConfig")
              /\ pc' = "initialize_pool"
              /\ UNCHANGED uncaught
         ELSE /\ Abort(PortError("load_config", "ConfigurationError"))
              /\ UNCHANGED config
    /\ UNCHANGED <<pool, result, exit_code>>
    /\ UNCHANGED <<serviceVars, infraVars>>

(* create_use_case, connection_factory.initialize(): the pool is created   *)
(* and tested; the constructor of the pool or the test may raise           *)
InitializePool ==
    /\ pc = "initialize_pool"
    /\ \E created \in BOOLEAN, tested \in BOOLEAN :
         /\ pool' = IF created THEN "open" ELSE "none"
         /\ IF created /\ tested
            THEN /\ pc' = "create_adapters"
                 /\ UNCHANGED uncaught
            ELSE Abort(PortError("initialize", "Other"))
    /\ UNCHANGED <<config, result, exit_code>>
    /\ UNCHANGED <<serviceVars, infraVars>>

(* create_use_case, the adapters: config.api.api_key is looked up, then    *)
(* the two repositories create their tables                                *)
CreateAdapters ==
    /\ pc = "create_adapters"
    /\ \E has_api_key \in BOOLEAN, out \in RepoOutcomes("_ensure_tables") :
         IF ~has_api_key
         THEN Abort([cls |-> "AttributeError",
                     msg |-> "'APIConfig' object has no attribute 'api_key'"])
         ELSE IF Raised(out)
         THEN Abort(out.err)
         ELSE /\ pc' = "authenticate"
              /\ UNCHANGED uncaught
    /\ UNCHANGED <<config, pool, result, exit_code>>
    /\ UNCHANGED <<serviceVars, infraVars>>

(* create_use_case, api_adapter.authenticate(), then the service and the   *)
(* use case are built                                                      *)
Authenticate ==
    /\ pc = "authenticate"
    /\ \E out \in AuthOutcomes :
         IF out.err # NoError
         THEN Abort(out.err)
         ELSE IF ~out.ok
         THEN Abort([cls |-> "ValueError",
                     msg |-> "Failed to authenticate with API"])
         ELSE /\ pc' = "execute"
              /\ UNCHANGED uncaught
    /\ UNCHANGED <<config, pool, result, exit_code>>
    /\ UNCHANGED <<serviceVars, infraVars>>

(* execute, up to the service call: market_data_service.symbols is looked  *)
(* up; AttributeError is none of (KeyError, ValueError) and leaves execute *)
Execute ==
    /\ pc = "execute"
    /\ \E has_symbols \in BOOLEAN, syms \in SymbolLists :
         IF ~has_symbols
         THEN /\ uncaught' =
                   Some([cls |-> "AttributeError",
                         msg |-> "'MarketDataService' object has no attribute 'symbols'"])
              /\ pc' = "cleanup"
              /\ UNCHANGED symbols
         ELSE /\ symbols' = syms
              /\ pc' = "loop"
              /\ UNCHANGED uncaught
    /\ UNCHANGED <<idx, resp, cur, exc, successful, failed, validation_errors,
                   apiLogs, rows, trace, escaped>>
    /\ UNCHANGED <<config, pool, result, exit_code>>
    /\ UNCHANGED infraVars

(* execute after the service returned: the summary *)
ExecuteReturn ==
    /\ pc = "returned"
    /\ result' = Some(SummaryPayload(symbols, successful, failed,
                                     validation_errors))
    /\ pc' = "cleanup"
    /\ UNCHANGED <<config, pool, uncaught, exit_code>>
    /\ UNCHANGED <<serviceVars, infraVars>>

(* execute after the service raised: except (KeyError, ValueError) *)
ExecuteExcept ==
    /\ pc = "raised"
    /\ IF ExecuteCatches(Val(escaped).cls)
       THEN /\ result' = Some(ErrorPayload(symbols, Val(escaped)))
            /\ UNCHANGED uncaught
       ELSE /\ uncaught' = escaped
            /\ UNCHANGED result
    /\ pc' = "cleanup"
    /\ UNCHANGED <<config, pool, exit_code>>
    /\ UNCHANGED <<serviceVars, infraVars>>

(* _handle_fetch_command after execute: finally container.cleanup(), which *)
(* closes the pool, then return 0 unless execute raised                    *)
Cleanup ==
    /\ pc = "cleanup"
    /\ pool' = "none"
    /\ IF uncaught = None
       THEN /\ exit_code' = Some(0)
            /\ pc' = "exited"
       ELSE /\ pc' = "cli_except"
            /\ UNCHANGED exit_code
    /\ UNCHANGED <<config, result, uncaught>>
    /\ UNCHANGED <<serviceVars, infraVars>>

(* the except clauses of run, or the exception leaving main *)
CliExcept ==
    /\ pc = "cli_except"
    /\ exit_code' = Some(ExitCodeFor(Val(uncaught).cls))
    /\ pc' = "exited"
    /\ UNCHANGED <<config, pool, result, uncaught>>
    /\ UNCHANGED <<serviceVars, infraVars>>

NextFetch ==
    \/ CliRun
    \/ LoadConfig
    \/ InitializePool
    \/ CreateAdapters
    \/ Authenticate
    \/ Execute
    \/ FetchApiData
    \/ LogApiCall
    \/ HandleApiError
    \/ MapToMarketData
    \/ ValidateData
    \/ HandleMappingError
    \/ SaveMarketData
    \/ MarkAsSaved
    \/ UpdateMarketData
    \/ HandleUnexpectedError
    \/ Propagate
    \/ Return
    \/ ExecuteReturn
    \/ ExecuteExcept
    \/ Cleanup
    \/ CliExcept

SpecFetch == InitFetch /\ [][NextFetch]_vars

----------------------------------------------------------------------------
(* Specification SpecUseCase: FetchMarketDataUseCase.execute() alone, on a *)
(* use case that was handed a service; it ends where execute returns or    *)
(* raises (pc = "cleanup", the finally clause of its caller).              *)

InitUseCase ==
    /\ pc = "execute"
    /\ symbols = <<>>
    /\ cur = None
    /\ trace = <<>>
    /\ ServiceIdle
    /\ NotStarted

NextUseCase ==
    \/ Execute
    \/ FetchApiData
    \/ LogApiCall
    \/ HandleApiError
    \/ MapToMarketData
    \/ ValidateData
    \/ HandleMappingError
    \/ SaveMarketData
    \/ MarkAsSaved
    \/ UpdateMarketData
    \/ HandleUnexpectedError
    \/ Propagate
    \/ Return
    \/ ExecuteReturn
    \/ ExecuteExcept

SpecUseCase == InitUseCase /\ [][NextUseCase]_vars

(* execute was entered and the service did not raise: it returned, or it   *)
(* was never called                                                        *)
ExecuteEndedWithoutServiceError == pc = "cleanup" /\ escaped = None

(* C17: execute returns the three buckets of the service and a summary     *)
(* with total_requested = len(symbols), the three counts equal to the      *)
(* lengths of the buckets, and success_rate = successful_count /           *)
(* total_requested, or 0 when total_requested is 0.                        *)
C17_ExecuteReturnsSummary ==
    ExecuteEndedWithoutServiceError =>
        /\ uncaught = None
        /\ result # None
        /\ LET r == Val(result)
               sm == r.summary
           IN  /\ r.error = None
               /\ r.successful = successful
               /\ r.failed = failed
               /\ r.validation_errors = validation_errors
               /\ sm.total_requested = Len(symbols)
               /\ sm.successful_count = Some(Len(successful))
               /\ sm.failed_count = Some(Len(failed))
               /\ sm.validation_error_count = Some(Len(validation_errors))
               /\ IF Len(symbols) = 0
                  THEN sm.success_rate = Zero
                  ELSE sm.success_rate.num * Len(symbols)
                          = Len(successful) * sm.success_rate.den

(* the summary of C17 on the runs in which the symbols attribute exists *)
SummaryIsRightWhenReturned ==
    (pc = "cleanup" /\ result # None /\ escaped = None) =>
        LET sm == Val(result).summary
        IN  /\ Val(result).successful = successful
            /\ sm.total_requested = Len(symbols)
            /\ sm.successful_count = Some(Len(successful))
            /\ sm.failed_count = Some(Len(failed))
            /\ sm.validation_error_count = Some(Len(validation_errors))
            /\ IF Len(symbols) = 0
               THEN sm.success_rate = Zero
               ELSE sm.success_rate.num * Len(symbols)
                       = Len(successful) * sm.success_rate.den

ScenarioHappened ==
    /\ symbols = <<"AAPL", "BAD">>
    /\ pc = "cleanup"
    /\ \A i \in TraceIdx : trace[i].err = NoError
    /\ \E i, j, k \in TraceIdx :
         /\ trace[i].pos = 1
         /\ trace[i].op = "get_market_data"
         /\ trace[i].arg = Some(APIResponse(200))
         /\ trace[j].pos = 1
         /\ trace[j].op = "map_to_market_data"
         /\ trace[j].arg = Some(MarketData("AAPL", 1, 5))
         /\ trace[k].pos = 2
         /\ trace[k].op = "get_market_data"
         /\ trace[k].arg = Some(APIResponse(404))

ScenarioResult ==
    /\ result # None
    /\ LET r == Val(result)
       IN  /\ Len(r.successful) = 1
           /\ r.successful[1].symbol = "AAPL"
           /\ r.successful[1].status = "SAVED"
           /\ r.failed = <<FailedEntry("BAD", "API returned 404")>>
           /\ r.validation_errors = <<>>
           /\ r.summary =
                [total_requested |-> 2, successful_count |-> Some(1),
                 failed_count |-> Some(1), validation_error_count |-> Some(0),
                 success_rate |-> [num |-> 1, den |-> 2]]
    /\ uncaught = None

(* the use case read market_data_service.symbols and found no such         *)
(* attribute                                                               *)
NoSymbolsAttribute ==
    /\ uncaught # None
    /\ Val(uncaught).cls = "AttributeError"
    /\ Val(uncaught).msg =
         "'MarketDataService' object has no attribute 'symbols'"

(* C19: execute processes the symbols of the service, and                  *)
(* with symbols ["AAPL", "BAD"], AAPL answered 200 with a well-formed      *)
(* quote and BAD answered 404, it ends with AAPL's entity in successful    *)
(* with status SAVED, BAD in failed with error "API returned 404" and the  *)
(* summary total_requested 2, successful_count 1, failed_count 1,          *)
(* validation_error_count 0, success_rate 0.5.                             *)
C19_EndToEndScenario ==
    /\ ~NoSymbolsAttribute
    /\ ScenarioHappened => ScenarioResult

(* the scenario of C19 on the runs in which the symbols attribute exists *)
ScenarioEndsAsClaimed == ScenarioHappened => ScenarioResult

(* configuration loading, pool initialization or authentication failed *)
SetupFailed ==
    /\ uncaught # None
    /\ \/ Val(uncaught) = PortError("load_config", "ConfigurationError")
       \/ Val(uncaught) = PortError("initialize", "Other")
       \/ Val(uncaught) \in {o.err : o \in AuthOutcomes}
       \/ Val(uncaught) = [cls |-> "ValueError",
                           msg |-> "Failed to authenticate with API"]

(* C20: when configuration loading, the initialization of the connection   *)
(* pool or the authentication with the API fails, no symbol is processed:  *)
(* get_market_data is never called, no audit log and no market-data row is *)
(* written, execute returns nothing, and the process ends with an exit     *)
(* status other than 0.                                                    *)
C20_SetupFailureAbortsRun ==
    SetupFailed =>
        /\ trace = <<>>
        /\ apiLogs = <<>>
        /\ rows = <<>>
        /\ result = None
        /\ pc \in {"cli_except", "exited"}
        /\ pc = "exited" => exit_code # None /\ exit_code # Some(0)

(* C20 happens: the test of the new connection pool raised and the process *)
(* ended with status 1, nothing fetched, nothing written                   *)
C20_Witness ==
    /\ pc = "exited"
    /\ uncaught = Some(PortError("initialize", "Other"))
    /\ pool = "open"
    /\ exit_code = Some(1)
    /\ trace = <<>>

----------------------------------------------------------------------------
(* the error that ended the run came from the command line, from loading   *)
(* the configuration, or from setting up the database or the API transport *)
ConfigurationOrSetupError ==
    /\ uncaught # None
    /\ \/ Val(uncaught).cls = "FileNotFoundError"
       \/ Val(uncaught) = [cls |-> "ValueError",
                           msg |-> "Configuration file is required"]
       \/ SetupFailed
       \/ Val(uncaught) \in
            {o.err : o \in RepoOutcomes("_ensure_tables") \ {Returns(None)}}

(* C21: when execute ran to completion the fetch command returns exit code *)
(* 0, whatever the number of symbols in failed or validation_errors; and a *)
(* non-zero exit code comes only from a configuration or transport-setup   *)
(* error.                                                                  *)
C21_ExitCodeZeroUnlessSetupError ==
    pc = "exited" =>
        /\ result # None => exit_code = Some(0)
        /\ exit_code # Some(0) => ConfigurationOrSetupError

(* the first half of C21: execute returned, the command returns 0 *)
CompletionExitsZero ==
    (pc = "exited" /\ result # None) => exit_code = Some(0)

(* the first half of C21 happens: both symbols failed and the command      *)
(* returned 0                                                              *)
AllFailedExitsZero ==
    /\ pc = "exited"
    /\ Len(symbols) = 2
    /\ Len(failed) = 2
    /\ exit_code = Some(0)

----------------------------------------------------------------------------
(* SafeDataMapper with the default schema (alpha_vantage global_quote).    *)
(*                                                                         *)
(* A payload is the dict the API answered: its top-level keys "Global      *)
(* Quote", "Error Message" and "Note" are each present (Some) or missing   *)
(* (None).  The value under "Global Quote" is a dict of the three fields   *)
(* the schema reads, or something that is no dict.  A field is missing     *)
(* ("absent"), JSON null ("null") or a string ("str").                     *)

Absent == [t |-> "absent", s |-> ""]
Null == [t |-> "null", s |-> ""]
Text(s) == [t |-> "str", s |-> s]

PriceTexts == {"", "abc", "0", "1", " 1 ", "-1"}
VolumeTexts == {"abc", "0", "5", "-1", "5.7", "inf", "9007199254740993"}
DayTexts == {"2024-01-15", "15/01/2024", "2024-01-15T10:00:00Z"}

NotADict == [dict |-> FALSE, price |-> Absent, volume |-> Absent, day |-> Absent]

Quotes ==
    {NotADict}
    \cup [dict : {TRUE},
          price : {Absent, Null} \cup {Text(s) : s \in PriceTexts},
          volume : {Absent, Null} \cup {Text(s) : s \in VolumeTexts},
          day : {Absent} \cup {Text(s) : s \in DayTexts}]

Payloads ==
    [quote : {None} \cup {Some(q) : q \in Quotes},
     error_message : {None, Some("Invalid API call")},
     note : {None, Some("rate limit")}]

(* symbol arguments: lower case, upper case, blank *)
MapperSymbols == {"aapl", "BAD", " "}

(* schema_mappings["api"]["validation_keys"] *)
validation_keys == <<"Global Quote">>

(* key in api_data *)
HasKey(p, key) ==
    CASE key = "Global Quote" -> p.quote # None
      [] key = "Error Message" -> p.error_message # None
      [] key = "Note" -> p.note # None
      [] OTHER -> FALSE

RECURSIVE MissingKeyErrors(_, _)
MissingKeyErrors(p, keys) ==
    IF keys = <<>> THEN <<>>
    ELSE (IF HasKey(p, Head(keys)) THEN <<>>
          ELSE <<"Missing '" \o Head(keys) \o "' in API response">>)
         \o MissingKeyErrors(p, Tail(keys))

(* validate_api_schema that does not look for the "Note" key *)
validate_api_schema_ignoring_note(p) ==
    MissingKeyErrors(p, validation_keys)
    \o (IF HasKey(p, "Error Message")
        THEN <<"API Error: " \o Val(p.error_message)>> ELSE <<>>)

validate_api_schema(p) ==
    MissingKeyErrors(p, validation_keys)
    \o (IF HasKey(p, "Error Message")
        THEN <<"API Error: " \o Val(p.error_message)>> ELSE <<>>)
    \o (IF HasKey(p, "Note")
        THEN <<"API Limit: " \o Val(p.note)>> ELSE <<>>)

(* _navigate_path(data, ["Global Quote", field]): the value, or None when  *)
(* a step meets a missing key or something that is no dict; a JSON null is *)
(* Python's None as well                                                   *)
_navigate_path(p, field) ==
    IF p.quote = None THEN None
    ELSE IF ~Val(p.quote).dict THEN None
    ELSE LET raw == CASE field = "05. price" -> Val(p.quote).price
                      [] field = "06. volume" -> Val(p.quote).volume
                      [] field = "07. latest trading day" -> Val(p.quote).day
         IN  IF raw.t = "str" THEN Some(raw.s) ELSE None

(* Python integers.  TLC's integers end at 2^31 - 1 and a float's mantissa *)
(* at 2^53, so an integer is kept as sign and two digits in base 2^27: the *)
(* number (hi * 2^27 + lo), with tenths for one decimal place of a numeral *)
Base == 2^27
Number(neg, hi, lo, tenths) ==
    [neg |-> neg, hi |-> hi, lo |-> lo, tenths |-> tenths]

(* the number a numeral denotes; 9007199254740993 is 2^53 + 1 *)
NumeralValue ==
    "0" :> Number(FALSE, 0, 0, 0)
    @@ "1" :> Number(FALSE, 0, 1, 0)
    @@ "5" :> Number(FALSE, 0, 5, 0)
    @@ "-1" :> Number(TRUE, 0, 1, 0)
    @@ "5.7" :> Number(FALSE, 0, 5, 7)
    @@ "9007199254740993" :> Number(FALSE, 2^26, 1, 0)

(* str.strip() *)
Strip(s) ==
    CASE s = " 1 " -> "1"
      [] s = " " -> ""
      [] OTHER -> s

(* the integer of the model for a Python integer: itself below 2^27, and   *)
(* 2^27 with its sign beyond, which the entity's rules (volume < 0) cannot *)
(* tell from the number                                                    *)
IntOf(n) ==
    LET magnitude == IF n.hi = 0 THEN n.lo ELSE Base
    IN  IF n.neg THEN 0 - magnitude ELSE magnitude

(* Decimal(text): exact, or decimal.InvalidOperation *)
Decimal(s) ==
    IF s \in DOMAIN NumeralValue /\ NumeralValue[s].hi = 0
                                 /\ NumeralValue[s].tenths = 0
    THEN Returns(Some(IntOf(NumeralValue[s])))
    ELSE [ret |-> None,
          err |-> [cls |-> "InvalidOperation", msg |-> "ConversionSyntax"]]

(* the float nearest to a number (IEEE 754 binary64, ties to even): exact  *)
(* below 2^53; from 2^53 to 2^54 the floats are the even integers          *)
NearestFloat(n) ==
    IF n.hi < 2^26 \/ n.lo % 2 = 0 THEN n
    ELSE LET down == n.lo - 1
             lo == IF (down \div 2) % 2 = 0 THEN down ELSE n.lo + 1
         IN  IF lo = Base
             THEN [n EXCEPT !.hi = @ + 1, !.lo = 0]
             ELSE [n EXCEPT !.lo = lo]

(* float(text): a finite float, inf, or ValueError *)
Float(s) ==
    IF s \in {"inf", "Infinity"}
    THEN [kind |-> "inf", n |-> Number(FALSE, 0, 0, 0), err |-> NoError]
    ELSE IF s \in DOMAIN NumeralValue
    THEN [kind |-> "finite", n |-> NearestFloat(NumeralValue[s]),
          err |-> NoError]
    ELSE [kind |-> "", n |-> Number(FALSE, 0, 0, 0),
          err |-> [cls |-> "ValueError",
                   msg |-> "could not convert string to float"]]

(* int(float): truncation towards zero, OverflowError for an infinity *)
Int_(f) ==
    IF f.kind = "inf"
    THEN [ret |-> None,
          err |-> [cls |-> "OverflowError",
                   msg |-> "cannot convert float infinity to integer"]]
    ELSE Returns(Some([f.n EXCEPT !.tenths = 0,
                                  !.neg = @ /\ (f.n.hi # 0 \/ f.n.lo # 0)]))

(* _safe_extract_decimal: None for a missing field, an empty string and    *)
(* what Decimal rejects (except (InvalidOperation, ValueError, TypeError)) *)
_safe_extract_decimal(p) ==
    LET value == _navigate_path(p, "05. price")
    IN  IF value = None THEN Returns(None)
        ELSE IF Strip(Val(value)) = "" THEN Returns(None)
        ELSE LET d == Decimal(Strip(Val(value)))
             IN  IF d.err.cls \in {"InvalidOperation", "ValueError", "TypeError"}
                 THEN Returns(None)
                 ELSE d

(* _safe_extract_int: int(float(value)) for a string; except (ValueError,  *)
(* TypeError) gives None, any other exception leaves the function          *)
_safe_extract_int(p) ==
    LET value == _navigate_path(p, "06. volume")
    IN  IF value = None THEN Returns(None)
        ELSE LET f == Float(Val(value))
                 i == Int_(f)
             IN  IF f.err # NoError
                 THEN (IF f.err.cls \in {"ValueError", "TypeError"}
                       THEN Returns(None) ELSE [ret |-> None, err |-> f.err])
                 ELSE IF i.err # NoError
                 THEN (IF i.err.cls \in {"ValueError", "TypeError"}
                       THEN Returns(None) ELSE i)
                 ELSE i

(* the formats _safe_extract_datetime tries, in its order *)
DateFormats == <<"%Y-%m-%d", "%Y-%m-%d %H:%M:%S", "%Y-%m-%dT%H:%M:%S",
                 "%Y-%m-%dT%H:%M:%S.%f", "%Y/%m/%d", "%d/%m/%Y">>

(* datetime.strptime(s, fmt): the day as yyyymmdd, or ValueError (None) *)
strptime(s, fmt) ==
    IF \/ s = "2024-01-15" /\ fmt = "%Y-%m-%d"
       \/ s = "15/01/2024" /\ fmt = "%d/%m/%Y"
    THEN Some(20240115)
    ELSE None

RECURSIVE FirstParsed(_, _)
FirstParsed(s, fmts) ==
    IF fmts = <<>> THEN None
    ELSE IF strptime(s, Head(fmts)) # None THEN strptime(s, Head(fmts))
    ELSE FirstParsed(s, Tail(fmts))

(* _safe_extract_datetime *)
_safe_extract_datetime(p) ==
    LET value == _navigate_path(p, "07. latest trading day")
    IN  IF value = None \/ Val(value) = "" THEN None
        ELSE FirstParsed(Val(value), DateFormats)

(* datetime.now() inside map_to_market_data, as yyyymmdd *)
Now == 20261101

(* the int 0 as a Python integer *)
PyZero == Number(FALSE, 0, 0, 0)

(* map_to_market_data: ValueError when the schema check reports errors;    *)
(* otherwise the entity, with "x or default" for each extracted field; any *)
(* exception of the extraction is turned into ValueError                   *)
map_to_market_data(p, symbol) ==
    IF validate_api_schema(p) # <<>>
    THEN [ret |-> None,
          err |-> [cls |-> "ValueError",
                   msg |-> "API schema validation failed"]]
    ELSE LET price == _safe_extract_decimal(p)
             volume == _safe_extract_int(p)
             timestamp == _safe_extract_datetime(p)
         IN  IF volume.err # NoError
             THEN [ret |-> None,
                   err |-> [cls |-> "ValueError",
                            msg |-> "Failed to map API data for symbol "
                                    \o symbol \o ": " \o volume.err.msg]]
             ELSE Returns(Some(
                    [MarketData(
                        Upper(symbol),
                        IF price.ret = None \/ Val(price.ret) = 0
                        THEN 0 ELSE Val(price.ret),
                        IF volume.ret = None THEN PyZero ELSE Val(volume.ret))
                     EXCEPT !.data_timestamp =
                        IF timestamp = None THEN Some(Now) ELSE timestamp]
                    @@ [raw_data |-> p]))

(* the entity as the service steps of the model hold it *)
Entity(mapped) == [mapped EXCEPT !.volume = IntOf(@)]
----------------------------------------------------------------------------
(* Specification SpecMapper: the service processes one symbol whose API    *)
(* response was 200 with a payload, from the call of the mapper on: the    *)
(* steps of Spec with SafeDataMapper in the place of the abstract mapper.  *)
(* It starts where _fetch_api_data and _log_api_call have returned.        *)

(* the payload of the response: the data of what get_market_data returned *)
Payload == Val(trace[1].arg).data

InitMapper ==
    /\ symbols \in {<<s>> : s \in MapperSymbols}
    /\ idx = 1
    /\ pc = "map"
    /\ resp \in {Some([status_code |-> 200, data |-> p]) : p \in Payloads}
    /\ cur = None
    /\ exc = None
    /\ successful = <<>>
    /\ failed = <<>>
    /\ validation_errors = <<>>
    /\ apiLogs = <<[id |-> 1]
                   @@ APILog("fetch_market_data", symbols[1], Some(200), TRUE,
                             None, Val(resp).data)>>
    /\ rows = <<>>
    /\ trace = <<Event("get_market_data", resp, NoError),
                 Event("api_log_repository.save",
                       Some(APILog("fetch_market_data", symbols[1], Some(200),
                                   TRUE, None, Val(resp).data)),
                       NoError)>>
    /\ escaped = None
    /\ NotStarted

(* _map_and_validate_data, first half, with SafeDataMapper: the schema     *)
(* check inside map_to_market_data, then the entity or ValueError, which   *)
(* the except clause of _process_symbol catches                            *)
MapPayload ==
    /\ pc = "map"
    /\ LET p == Val(resp).data
           out == map_to_market_data(p, Sym)
           checked == <<Event("validate_api_schema",
                              Some(validate_api_schema(p)), NoError)>>
           price == _safe_extract_decimal(p)
           volume == _safe_extract_int(p)
           extracted ==
               IF validate_api_schema(p) # <<>> THEN <<>>
               ELSE <<Event("_safe_extract_decimal", price.ret, price.err),
                      Event("_safe_extract_int", volume.ret, volume.err)>>
                    \o (IF volume.err # NoError THEN <<>>
                        ELSE <<Event("_safe_extract_datetime",
                                     _safe_extract_datetime(p), NoError)>>)
       IN  /\ Record(checked \o extracted
                     \o <<Event("map_to_market_data", out.ret, out.err)>>)
           /\ IF Raised(out)
              THEN /\ exc' = Some(out.err)
                   /\ pc' = "mapping_error"
                   /\ UNCHANGED cur
              ELSE /\ cur' = Some(Entity(Val(out.ret)))
                   /\ pc' = "validate"
                   /\ UNCHANGED exc
    /\ UNCHANGED <<symbols, idx, resp, successful, failed, validation_errors,
                   apiLogs, rows, escaped>>
    /\ UNCHANGED appVars

NextMapper ==
    \/ MapPayload
    \/ ValidateData
    \/ HandleMappingError
    \/ SaveMarketData
    \/ MarkAsSaved
    \/ UpdateMarketData
    \/ HandleUnexpectedError
    \/ Propagate
    \/ Return

SpecMapper == InitMapper /\ [][NextMapper]_vars

(* the calls of the mapper in the history *)
SchemaChecks == {i \in TraceIdx : trace[i].op = "validate_api_schema"}
Mappings == {i \in TraceIdx : trace[i].op = "map_to_market_data"}

(* the required top-level keys the payload lacks *)
MissingKeys == {k \in {validation_keys[j] : j \in DOMAIN validation_keys} :
                  ~HasKey(Payload, k)}

HasMarker == Payload.error_message # None \/ Payload.note # None

MissingMessages(errors) ==
    {j \in DOMAIN errors :
        \E k \in MissingKeys : errors[j] = "Missing '" \o k \o "' in API response"}

(* C22: for a payload that lacks a required top-level key or contains the  *)
(* "Error Message" or the "Note" key, validate_api_schema returns a        *)
(* non-empty list, with one "Missing '<key>'" message per missing key, and *)
(* map_to_market_data raises and returns no entity; for a payload with all *)
(* required keys and no marker key validate_api_schema returns the empty   *)
(* list.                                                                   *)
C22_SchemaErrorsStopMapping ==
    /\ \A i \in SchemaChecks :
         LET errors == Val(trace[i].arg)
         IN  /\ (MissingKeys # {} \/ HasMarker) => Len(errors) > 0
             /\ Cardinality(MissingMessages(errors)) = Cardinality(MissingKeys)
             /\ (MissingKeys = {} /\ ~HasMarker) => errors = <<>>
    /\ \A i \in Mappings :
         (MissingKeys # {} \/ HasMarker) =>
             /\ trace[i].err # NoError
             /\ trace[i].arg = None
             /\ cur = None

(* C22 happens: a payload without "Global Quote" and with a "Note": two    *)
(* messages, one of them the missing key's, and the mapper raised          *)
C22_Witness ==
    /\ Payload.quote = None
    /\ Payload.note # None
    /\ Payload.error_message = None
    /\ \E i \in SchemaChecks :
         /\ Len(Val(trace[i].arg)) = 2
         /\ Val(trace[i].arg)[1] = "Missing 'Global Quote' in API response"
    /\ \E i \in Mappings : trace[i].err.cls = "ValueError"
    /\ pc = "mapping_error"

(* the fields of the quote as the payload carries them *)
PriceText == Val(Payload.quote).price.s
VolumeText == Val(Payload.quote).volume.s
DayText == Val(Payload.quote).day.s

(* all required keys, no marker key, and well-formed fields: a positive    *)
(* decimal numeral as price, a non-negative integer numeral as volume, a   *)
(* day in one of the formats of the schema; the symbol is not blank        *)
WellFormedPayload ==
    /\ Payload.quote # None
    /\ ~HasMarker
    /\ Val(Payload.quote).dict
    /\ Val(Payload.quote).price.t = "str"
    /\ PriceText \in {"1", " 1 "}
    /\ Val(Payload.quote).volume.t = "str"
    /\ VolumeText \in {"0", "5", "9007199254740993"}
    /\ Val(Payload.quote).day.t = "str"
    /\ DayText \in {"2024-01-15", "15/01/2024"}
    /\ symbols[1] \in {"aapl", "BAD"}

(* the entity carries the values of the payload *)
RoundTrip(e) ==
    /\ e.price = 1
    /\ e.volume = NumeralValue[VolumeText]
    /\ e.data_timestamp = Some(20240115)
    /\ e.symbol = (IF symbols[1] = "aapl" THEN "AAPL" ELSE "BAD")
    /\ e.source = "API"
    /\ e.market_cap = None
    /\ e.pe_ratio = None
    /\ e.status = "PENDING"
    /\ e.raw_data = Payload
    /\ validate(Entity(e)) = <<>>

(* C23: for a payload with all required keys and well-formed price, volume *)
(* and timestamp fields, map_to_market_data returns an entity whose price, *)
(* volume and data_timestamp are exactly those values, with the symbol     *)
(* upper-cased, source API, market_cap and pe_ratio null, status PENDING   *)
(* and raw_data the payload, and validate() on it returns the empty list.  *)
C23_MapperRoundTrip ==
    \A i \in Mappings :
        WellFormedPayload =>
            /\ trace[i].err = NoError
            /\ trace[i].arg # None
            /\ RoundTrip(Val(trace[i].arg))

(* the round trip of C23 for the volumes a float holds exactly (below      *)
(* 2^53)                                                                   *)
RoundTripBelowFloatPrecision ==
    \A i \in Mappings :
        (WellFormedPayload /\ NumeralValue[VolumeText].hi < 2^26) =>
            /\ trace[i].err = NoError
            /\ trace[i].arg # None
            /\ RoundTrip(Val(trace[i].arg))

(* a well-formed payload was mapped and its entity went through the        *)
(* service                                                                 *)
WellFormedWasMapped ==
    /\ WellFormedPayload
    /\ VolumeText = "5"
    /\ PriceText = " 1 "
    /\ Len(successful) = 1
    /\ pc = "returned"

(* the payload passes the schema check and carries no price the mapper can *)
(* read: the quote is no dict, the field is missing or null, or its text   *)
(* is empty or no number                                                   *)
PriceUnreadable ==
    /\ Payload.quote # None
    /\ ~HasMarker
    /\ \/ ~Val(Payload.quote).dict
       \/ Val(Payload.quote).price.t \in {"absent", "null"}
       \/ Val(Payload.quote).price.s \in {"", "abc"}

VolumeUnread ==
    \/ ~Val(Payload.quote).dict
    \/ Val(Payload.quote).volume.t \in {"absent", "null"}

DayUnread ==
    \/ ~Val(Payload.quote).dict
    \/ Val(Payload.quote).day.t = "absent"

SymbolDone == idx = 2

(* what C24 says of such a payload *)
PriceFallsBackToZero ==
    /\ \A i \in TraceIdx :
         trace[i].op = "_safe_extract_decimal" =>
             trace[i].arg = None /\ trace[i].err = NoError
    /\ \A i \in Mappings :
         /\ trace[i].err = NoError
         /\ trace[i].arg # None
         /\ Val(trace[i].arg).price = 0
         /\ VolumeUnread => Val(trace[i].arg).volume = PyZero
         /\ DayUnread => Val(trace[i].arg).data_timestamp = Some(Now)
    /\ SymbolDone =>
         /\ Len(validation_errors) = 1
         /\ validation_errors[1].symbol = symbols[1]
         /\ \E j \in DOMAIN validation_errors[1].errors :
              validation_errors[1].errors[j] = "Price must be positive"
         /\ failed = <<>>
         /\ successful = <<>>
         /\ rows = <<>>
         /\ At(1, PersistOps) = {}

(* C24: when a payload passes schema validation but its price field is     *)
(* absent or cannot be coerced, extraction returns "absent" without        *)
(* raising and map_to_market_data substitutes price 0 (volume 0 and the    *)
(* current time for an absent volume or timestamp); the service puts the   *)
(* symbol in validation_errors with "Price must be positive", not in       *)
(* failed, and persists nothing for it.                                    *)
C24_AbsentPriceIsValidationError ==
    PriceUnreadable => PriceFallsBackToZero

(* C24 for the payloads whose volume is no infinity *)
AbsentPriceIsValidationErrorUnlessVolumeOverflows ==
    (/\ PriceUnreadable
     /\ ~(/\ Val(Payload.quote).dict
          /\ Val(Payload.quote).volume.s = "inf")) => PriceFallsBackToZero

(* the case of C24 took place: no price, no volume, no day in the quote,   *)
(* and the symbol ended in validation_errors                               *)
AbsentPriceWasProcessed ==
    /\ PriceUnreadable
    /\ Val(Payload.quote).dict
    /\ Val(Payload.quote).price.t = "absent"
    /\ VolumeUnread
    /\ DayUnread
    /\ SymbolDone
    /\ Len(validation_errors) = 1

----------------------------------------------------------------------------
(* the repository.save calls that returned, and the id each one assigned:  *)
(* ids are given in the order of the inserts                               *)
Inserts == {i \in TraceIdx : trace[i].op = "repository.save"
                             /\ trace[i].err = NoError}

IdOf(i) == Cardinality({j \in Inserts : j <= i})

UpdatedAt(p) == {j \in TraceIdx : /\ trace[j].pos = p
                                  /\ trace[j].op = "repository.update"
                                  /\ trace[j].err = NoError}

(* C25: when repository.save succeeded for a symbol and the following      *)
(* repository.update failed, or the run is between the two calls, the      *)
(* stored row has status VALIDATED and its assigned id, the symbol's       *)
(* entity is not in successful, and the service has called neither save    *)
(* nor update again for it.                                                *)
C25_RowStaysValidatedWhenUpdateFails ==
    \A i \in Inserts :
        LET p == trace[i].pos
        IN  UpdatedAt(p) = {} =>
              /\ IdOf(i) \in DOMAIN rows
              /\ rows[IdOf(i)].status = "VALIDATED"
              /\ rows[IdOf(i)].id = Some(IdOf(i))
              /\ rows[IdOf(i)].symbol = Upper(symbols[p])
              /\ At(p, {"successful.append"}) = {}
              /\ \A s \in DOMAIN successful : successful[s].id # Some(IdOf(i))
              /\ At(p, {"repository.save"}) = {i}
              /\ Cardinality(At(p, {"repository.update"})) <= 1
              /\ \A j \in At(p, {"repository.update"}) : j > i

(* C25 happens: the update of the first symbol failed, the run went on to  *)
(* the end, and the row of the first symbol is still VALIDATED while the   *)
(* second symbol was saved                                                 *)
C25_Witness ==
    /\ pc = "returned"
    /\ Len(symbols) = 2
    /\ \E j \in TraceIdx : /\ trace[j].pos = 1
                           /\ trace[j].op = "repository.update"
                           /\ trace[j].err # NoError
    /\ Len(rows) = 2
    /\ rows[1].status = "VALIDATED"
    /\ rows[2].status = "SAVED"
    /\ Len(successful) = 1
    /\ Len(failed) = 1

----------------------------------------------------------------------------
(* PostgresConnectionFactory shared by several threads.                    *)
(* Each thread calls initialize(), close() or enters a get_connection()    *)
(* context; a step of a thread runs up to its next read or write of the    *)
(* shared attributes self._pool and self._lock.                            *)

MaxThreads == 2
MaxOps == 3

Threads == 1..MaxThreads

FactoryOps == {"initialize", "get_connection", "close"}

(* locals of one call: conn is the pool the connection was taken from (0:  *)
(* connection is None), puts counts putconn calls, in_tx is connection     *)
(* .status == STATUS_IN_TRANSACTION, err the exception leaving the call    *)
Frame(op, position, calls) ==
    [op |-> op, pc |-> position, conn |-> 0, puts |-> 0, in_tx |-> FALSE,
     err |-> "", noop |-> FALSE, calls |-> calls]

RECURSIVE CallsUpTo(_)
CallsUpTo(t) == IF t = 0 THEN 0 ELSE threads[t].calls + CallsUpTo(t - 1)

(* threading.Lock.acquire: blocks while another holder has the lock *)
CanAcquire_without_lock(l) == TRUE

CanAcquire(l) == l = None

(* psycopg2.pool.SimpleConnectionPool(...) *)
SimpleConnectionPool == [closed |-> FALSE, used |-> 0]

(* the object self._pool refers to while it is not None: _pool is assigned *)
(* a new pool or None only, so it is the pool created last                 *)
PoolObject == Len(pools)

Step(t, frame) == threads' = [threads EXCEPT ![t] = frame]

(* a thread with no call in progress starts one *)
StartCall(t) ==
    /\ threads[t].pc \in {"idle", "done"}
    /\ CallsUpTo(MaxThreads) < MaxOps
    /\ \E op \in FactoryOps :
         Step(t, Frame(op,
                       CASE op = "initialize" -> "in_acquire"
                         [] op = "get_connection" -> "gc_check"
                         [] op = "close" -> "cl_check",
                       threads[t].calls + 1))
    /\ UNCHANGED <<lock, pool, pools>>

(* initialize: with self._lock, then the test of self._pool *)
InitializeEnter(t) ==
    /\ threads[t].pc = "in_acquire"
    /\ CanAcquire(lock)
    /\ lock' = Some(t)
    /\ IF pool # "none"
       THEN Step(t, [threads[t] EXCEPT !.pc = "in_release", !.noop = TRUE])
       ELSE Step(t, [threads[t] EXCEPT !.pc = "in_create"])
    /\ UNCHANGED <<pool, pools>>

(* initialize: self._pool = SimpleConnectionPool(...), which connects and  *)
(* may fail before the assignment                                          *)
InitializeCreate(t) ==
    /\ threads[t].pc = "in_create"
    /\ \E connected \in BOOLEAN :
         IF connected
         THEN /\ pools' = Append(pools, SimpleConnectionPool)
              /\ pool' = "open"
              /\ Step(t, [threads[t] EXCEPT !.pc = "gc_check"])
         ELSE /\ Step(t, [threads[t] EXCEPT !.pc = "in_release",
                                            !.err = "OperationalError"])
              /\ UNCHANGED <<pool, pools>>
    /\ UNCHANGED lock

(* initialize: leaving the with block releases the lock, on return and on  *)
(* an exception alike; the except clause logs and re-raises                *)
InitializeExit(t) ==
    /\ threads[t].pc = "in_release"
    /\ lock' = None
    /\ Step(t, [threads[t] EXCEPT !.pc = "done"])
    /\ UNCHANGED <<pool, pools>>

(* where a get_connection context leaves to: _test_connection returns      *)
(* into initialize, any other context ends the call                        *)
AfterContext(t) ==
    IF threads[t].op = "initialize" THEN "in_release" ELSE "done"

(* get_connection: if self._pool is None: raise RuntimeError *)
GetConnectionCheck(t) ==
    /\ threads[t].pc = "gc_check"
    /\ IF pool = "none"
       THEN Step(t, [threads[t] EXCEPT !.pc = AfterContext(t),
                                       !.err = "RuntimeError"])
       ELSE Step(t, [threads[t] EXCEPT !.pc = "gc_getconn"])
    /\ UNCHANGED <<lock, pool, pools>>

(* get_connection: connection = self._pool.getconn(); a failure is caught  *)
(* by except Exception with connection still None and re-raised            *)
GetConn(t) ==
    /\ threads[t].pc = "gc_getconn"
    /\ IF pool = "none"
       THEN /\ Step(t, [threads[t] EXCEPT !.pc = AfterContext(t),
                                          !.err = "AttributeError"])
            /\ UNCHANGED pools
       ELSE IF pools[PoolObject].closed
       THEN /\ Step(t, [threads[t] EXCEPT !.pc = AfterContext(t),
                                          !.err = "PoolError"])
            /\ UNCHANGED pools
       ELSE \E connected \in BOOLEAN :
              IF connected
              THEN /\ pools' = [pools EXCEPT ![PoolObject].used = @ + 1]
                   /\ Step(t, [threads[t] EXCEPT !.pc = "gc_body",
                                                 !.conn = PoolObject])
              ELSE /\ Step(t, [threads[t] EXCEPT !.pc = AfterContext(t),
                                                 !.err = "OperationalError"])
                   /\ UNCHANGED pools
    /\ UNCHANGED <<lock, pool>>

(* the body of the with statement, and the except clause when it raises:   *)
(* connection.rollback() and raise; rollback itself may raise              *)
Body(t) ==
    /\ threads[t].pc = "gc_body"
    /\ \E raises \in BOOLEAN, open_tx \in BOOLEAN, rolled_back \in BOOLEAN :
         IF ~raises
         THEN Step(t, [threads[t] EXCEPT !.pc = "gc_finally",
                                         !.in_tx = open_tx])
         ELSE IF rolled_back
         THEN Step(t, [threads[t] EXCEPT !.pc = "gc_finally",
                                         !.in_tx = FALSE,
                                         !.err = "BodyError"])
         ELSE Step(t, [threads[t] EXCEPT !.pc = "gc_finally",
                                         !.in_tx = open_tx,
                                         !.err = "InterfaceError"])
    /\ UNCHANGED <<lock, pool, pools>>

(* psycopg2 pool.putconn(conn) on the pool self._pool refers to now *)
PutConn(t) ==
    IF pool = "none"
    THEN /\ Step(t, [threads[t] EXCEPT !.pc = AfterContext(t),
                                       !.err = "AttributeError"])
         /\ UNCHANGED pools
    ELSE IF pools[PoolObject].closed \/ PoolObject # threads[t].conn
    THEN /\ Step(t, [threads[t] EXCEPT !.pc = AfterContext(t),
                                       !.err = "PoolError"])
         /\ UNCHANGED pools
    ELSE /\ pools' = [pools EXCEPT ![PoolObject].used = @ - 1]
         /\ Step(t, [threads[t] EXCEPT !.pc = AfterContext(t),
                                       !.puts = @ + 1])

(* get_connection, finally: rollback of an open transaction, putconn; a    *)
(* DatabaseError or InterfaceError of either is logged and swallowed       *)
GetConnectionFinally(t) ==
    /\ threads[t].pc = "gc_finally"
    /\ \E rolled_back \in BOOLEAN :
         IF threads[t].in_tx /\ ~rolled_back
         THEN /\ Step(t, [threads[t] EXCEPT !.pc = AfterContext(t)])
              /\ UNCHANGED pools
         ELSE PutConn(t)
    /\ UNCHANGED <<lock, pool>>

(* close: if self._pool: (outside the lock) *)
CloseCheck(t) ==
    /\ threads[t].pc = "cl_check"
    /\ IF pool = "none"
       THEN Step(t, [threads[t] EXCEPT !.pc = "done"])
       ELSE Step(t, [threads[t] EXCEPT !.pc = "cl_acquire"])
    /\ UNCHANGED <<lock, pool, pools>>

(* close: with self._lock: self._pool.closeall() *)
CloseAll(t) ==
    /\ threads[t].pc = "cl_acquire"
    /\ CanAcquire(lock)
    /\ lock' = Some(t)
    /\ IF pool = "none"
       THEN /\ Step(t, [threads[t] EXCEPT !.pc = "cl_finally",
                                          !.err = "AttributeError"])
            /\ UNCHANGED pools
       ELSE /\ pools' = [pools EXCEPT ![PoolObject].closed = TRUE]
            /\ Step(t, [threads[t] EXCEPT !.pc = "cl_finally"])
    /\ UNCHANGED pool

(* close, finally: self._pool = None; the with block releases the lock *)
CloseFinally(t) ==
    /\ threads[t].pc = "cl_finally"
    /\ pool' = "none"
    /\ lock' = None
    /\ Step(t, [threads[t] EXCEPT !.pc = "done"])
    /\ UNCHANGED pools

poolFrame == <<symbols, idx, pc, resp, cur, exc, successful, failed,
               validation_errors, apiLogs, rows, trace, escaped, config,
               result, uncaught, exit_code, logger_factory>>

InitPool ==
    /\ pc = "threads"
    /\ symbols = <<>>
    /\ cur = None
    /\ trace = <<>>
    /\ ServiceIdle
    /\ config = None
    /\ result = None
    /\ uncaught = None
    /\ exit_code = None
    /\ logger_factory = [_initialized |-> FALSE, _configured_loggers |-> {}]
    /\ pool = "none"
    /\ pools = <<>>
    /\ lock = None
    /\ threads = [t \in Threads |-> Frame("none", "idle", 0)]

NextPool ==
    \E t \in Threads :
       /\ \/ StartCall(t)
          \/ InitializeEnter(t)
          \/ InitializeCreate(t)
          \/ InitializeExit(t)
          \/ GetConnectionCheck(t)
          \/ GetConn(t)
          \/ Body(t)
          \/ GetConnectionFinally(t)
          \/ CloseCheck(t)
          \/ CloseAll(t)
          \/ CloseFinally(t)
       /\ UNCHANGED poolFrame

SpecPool == InitPool /\ [][NextPool]_vars

----------------------------------------------------------------------------
(* C26: concurrent initialize() calls create one pool                      *)

OpenPools == {k \in 1..Len(pools) : ~pools[k].closed}

(* thread t takes a step of an initialize() call that found a pool *)
NoOpStep(t) ==
    /\ threads[t].op = "initialize"
    /\ threads'[t] # threads[t]
    /\ \/ threads[t].pc = "in_release" /\ threads[t].noop
       \/ threads[t].pc = "in_acquire" /\ pool # "none"

(* thread t returns from initialize() without an exception *)
InitializeReturns(t) ==
    /\ threads[t].op = "initialize"
    /\ threads[t].pc = "in_release"
    /\ threads'[t].pc = "done"
    /\ threads[t].err = ""

(* C26: in every interleaving of initialize() calls (and until a close()   *)
(* has closed a pool) at most one connection pool is ever created, and at  *)
(* any time at most one pool is open; a pool is created only while         *)
(* self._pool is None; an initialize() that returns normally leaves a pool *)
(* in place; an initialize() that finds a pool changes neither self._pool  *)
(* nor any pool.                                                           *)
C26_OnePoolPerInitialization ==
    /\ [](/\ Cardinality(OpenPools) <= 1
          /\ OpenPools = 1..Len(pools) => Len(pools) <= 1)
    /\ [][/\ Len(pools') > Len(pools) => pool = "none" /\ pool' = "open"
          /\ \A t \in Threads :
               /\ InitializeReturns(t) => pool = "open" /\ Len(pools) >= 1
               /\ NoOpStep(t) => /\ UNCHANGED <<pool, pools>>
                                 /\ threads'[t].noop
                                 /\ threads'[t].err = ""]_vars

(* C26 witness: two initialize() calls overlap on a fresh factory: one     *)
(* thread holds the lock, has created the only pool and tested it, the     *)
(* other has entered initialize() and waits for the lock                   *)
C26_Witness ==
    /\ Len(pools) = 1
    /\ pool = "open"
    /\ \E t, u \in Threads :
         /\ t # u
         /\ lock = Some(u)
         /\ threads[u].op = "initialize"
         /\ threads[u].pc = "in_release"
         /\ ~threads[u].noop
         /\ threads[u].err = ""
         /\ threads[t].op = "initialize"
         /\ threads[t].pc = "in_acquire"
         /\ threads[t].calls = 1
         /\ threads[u].calls = 1

----------------------------------------------------------------------------
(* AppLoggerFactory, a class shared by every thread of the process.        *)
(* cls._lock is a threading.Lock: acquire blocks while the lock is held,   *)
(* by whichever thread, the caller itself included.                        *)

LoggerOps == {"initialize", "create_logger"}

LoggerNames == {"selene.cli", "selene.database"}

(* locals of one call; nested: create_logger is inside its own call of     *)
(* cls.initialize()                                                        *)
LoggerFrame(op, position, name, calls) ==
    [op |-> op, pc |-> position, name |-> name, nested |-> FALSE,
     err |-> "", calls |-> calls]

(* a thread with no call in progress calls initialize() or create_logger *)
LoggerStart(t) ==
    /\ threads[t].pc \in {"idle", "done"}
    /\ CallsUpTo(MaxThreads) < MaxOps
    /\ \E op \in LoggerOps, name \in LoggerNames :
         Step(t, LoggerFrame(op,
                             IF op = "initialize" THEN "li_acquire"
                                                  ELSE "lc_acquire",
                             IF op = "initialize" THEN "" ELSE name,
                             threads[t].calls + 1))
    /\ UNCHANGED <<lock, logger_factory>>

(* initialize: with cls._lock: if cls._initialized: return *)
LoggerInitializeEnter(t) ==
    /\ threads[t].pc = "li_acquire"
    /\ CanAcquire(lock)
    /\ lock' = Some(t)
    /\ IF logger_factory._initialized
       THEN Step(t, [threads[t] EXCEPT !.pc = "li_release"])
       ELSE Step(t, [threads[t] EXCEPT !.pc = "li_setup"])
    /\ UNCHANGED logger_factory

(* initialize: the log directory and the root logger; any exception        *)
(* becomes RuntimeError and _initialized stays False                       *)
LoggerInitializeSetup(t) ==
    /\ threads[t].pc = "li_setup"
    /\ \E configured \in BOOLEAN :
         IF configured
         THEN /\ logger_factory' = [logger_factory EXCEPT !._initialized = TRUE]
              /\ Step(t, [threads[t] EXCEPT !.pc = "li_release"])
         ELSE /\ Step(t, [threads[t] EXCEPT !.pc = "li_release",
                                            !.err = "RuntimeError"])
              /\ UNCHANGED logger_factory
    /\ UNCHANGED lock

(* initialize: the with block releases the lock; the call returns to its   *)
(* caller, which is create_logger when the call was the lazy one           *)
LoggerInitializeExit(t) ==
    /\ threads[t].pc = "li_release"
    /\ lock' = None
    /\ IF threads[t].nested /\ threads[t].err = ""
       THEN Step(t, [threads[t] EXCEPT !.pc = "lc_configure"])
       ELSE Step(t, [threads[t] EXCEPT !.pc = "done"])
    /\ UNCHANGED logger_factory

(* create_logger: with cls._lock: if not cls._initialized:                 *)
(* cls.initialize(), called with the lock held                             *)
CreateLoggerEnter(t) ==
    /\ threads[t].pc = "lc_acquire"
    /\ CanAcquire(lock)
    /\ lock' = Some(t)
    /\ IF ~logger_factory._initialized
       THEN Step(t, [threads[t] EXCEPT !.pc = "li_acquire", !.nested = TRUE])
       ELSE Step(t, [threads[t] EXCEPT !.pc = "lc_configure"])
    /\ UNCHANGED logger_factory

(* create_logger: getLogger, _configured_loggers.add(name), return; the    *)
(* with block releases the lock                                            *)
CreateLoggerReturn(t) ==
    /\ threads[t].pc = "lc_configure"
    /\ logger_factory' =
          [logger_factory EXCEPT !._configured_loggers = @ \cup {threads[t].name}]
    /\ lock' = None
    /\ Step(t, [threads[t] EXCEPT !.pc = "done"])

(* a call in progress advances *)
LoggerProgress(t) ==
    /\ \/ LoggerInitializeEnter(t)
       \/ LoggerInitializeSetup(t)
       \/ LoggerInitializeExit(t)
       \/ CreateLoggerEnter(t)
       \/ CreateLoggerReturn(t)
    /\ UNCHANGED <<symbols, idx, pc, resp, cur, exc, successful, failed,
                   validation_errors, apiLogs, rows, trace, escaped, config,
                   pool, result, uncaught, exit_code, pools>>

InitLogger ==
    /\ pc = "threads"
    /\ symbols = <<>>
    /\ cur = None
    /\ trace = <<>>
    /\ ServiceIdle
    /\ config = None
    /\ result = None
    /\ uncaught = None
    /\ exit_code = None
    /\ pool = "none"
    /\ pools = <<>>
    /\ logger_factory = [_initialized |-> FALSE, _configured_loggers |-> {}]
    /\ lock = None
    /\ threads = [t \in Threads |-> LoggerFrame("none", "idle", "", 0)]

NextLogger ==
    \E t \in Threads :
       \/ /\ LoggerStart(t)
          /\ UNCHANGED <<symbols, idx, pc, resp, cur, exc, successful, failed,
                         validation_errors, apiLogs, rows, trace, escaped,
                         config, pool, result, uncaught, exit_code, pools>>
       \/ LoggerProgress(t)

SpecLogger == InitLogger /\ [][NextLogger]_vars

(* the interpreter schedules every thread that can run: a call that can    *)
(* advance eventually does                                                 *)
SpecLoggerFair ==
    SpecLogger /\ \A t \in Threads : WF_vars(LoggerProgress(t))

----------------------------------------------------------------------------
(* C27: create_logger on a factory that is not initialized returns         *)

(* C27: every create_logger(name) call that finds the factory not          *)
(* initialized (and so initializes it lazily) eventually returns.          *)
C27_LazyCreateLoggerReturns ==
    \A t \in Threads :
       (threads[t].op = "create_logger" /\ threads[t].nested)
          ~> (threads[t].pc = "done")

(* holds: a create_logger call that started the lazy initialization never  *)
(* gets past the lock of initialize(), which it holds itself               *)
LazyCreateLoggerHoldsTheLockItWaitsFor ==
    \A t \in Threads :
       threads[t].nested =>
          /\ threads[t].pc = "li_acquire"
          /\ lock = Some(t)
          /\ ~logger_factory._initialized

(* reached: the first call on a fresh factory is create_logger, and it     *)
(* waits for the lock it holds                                             *)
FirstCallIsLazyCreateLogger ==
    \E t \in Threads :
       /\ threads[t].nested
       /\ threads[t].calls = 1
       /\ \A u \in Threads \ {t} : threads[u].pc = "idle"

----------------------------------------------------------------------------
(* C28: connections taken by get_connection go back to the pool            *)

(* thread t has left its get_connection context *)
ContextLeft(t) == threads[t].pc \in {"in_release", "done"}

NoPoolClosed == \A k \in 1..Len(pools) : ~pools[k].closed

(* C28: a connection that get_connection took from the pool has been       *)
(* returned with putconn exactly once when the context has been left, and  *)
(* when no call is in progress no pool has a connection checked out        *)
(* (stated for runs in which no close() has closed a pool).                *)
C28_ConnectionsReturnedOnce ==
    NoPoolClosed =>
       /\ \A t \in Threads :
             ContextLeft(t) /\ threads[t].conn # 0 => threads[t].puts = 1
       /\ (\A t \in Threads : threads[t].pc \in {"idle", "done"}) =>
             \A k \in 1..Len(pools) : pools[k].used = 0

(* holds: no connection is returned twice, and a pool never counts fewer   *)
(* connections out than the contexts in progress hold                      *)
ConnectionReturnedAtMostOnce ==
    /\ \A t \in Threads : threads[t].puts <= 1
    /\ \A k \in 1..Len(pools) : pools[k].used >= 0

(* reached: initialize() has returned normally and the connection of its   *)
(* test is still checked out                                                *)
TestConnectionLeaked ==
    \E t \in Threads :
       /\ threads[t].op = "initialize"
       /\ threads[t].pc = "done"
       /\ threads[t].err = ""
       /\ threads[t].conn # 0
       /\ threads[t].puts = 0
       /\ pools[1].used = 1
       /\ \A u \in Threads \ {t} : threads[u].pc = "idle"

----------------------------------------------------------------------------
(* C29: the fetch command closes the pool it initialized                   *)

(* connection_factory.initialize() returned: the run got past it, so what  *)
(* ends the run, if anything, was raised later                             *)
PoolWasInitialized ==
    /\ config # None
    /\ uncaught # Some(PortError("initialize", "Other"))

(* C29: when the fetch command ends after connection_factory.initialize()  *)
(* returned (table creation failed, authentication failed, execute raised  *)
(* or execute returned), the pool has been closed.                         *)
C29_PoolClosedOnEveryExit ==
    pc = "exited" /\ PoolWasInitialized => pool = "none"

(* holds: once create_use_case has returned, the finally clause closes the *)
(* pool on every path; a pool left open at exit was left by an exception   *)
(* raised inside create_use_case                                           *)
PoolClosedOnceUseCaseExists ==
    pc = "exited" /\ pool = "open" =>
       /\ result = None
       /\ trace = <<>>
       /\ uncaught # None
       /\ \/ SetupFailed
          \/ Val(uncaught).cls = "AttributeError"
          \/ Val(uncaught) \in
               {o.err : o \in RepoOutcomes("_ensure_tables") \ {Returns(None)}}

(* reached: authentication failed after the pool was initialized and the   *)
(* command ended with the pool open                                        *)
PoolLeftOpenByFailedAuthentication ==
    /\ pc = "exited"
    /\ pool = "open"
    /\ uncaught = Some([cls |-> "ValueError",
                        msg |-> "Failed to authenticate with API"])

----------------------------------------------------------------------------
(* C30: close() racing with close() or get_connection()                    *)

(* thread t dereferenced self._pool after another thread's close() set it  *)
(* to None: 'NoneType' object has no attribute getconn/putconn/closeall    *)
UsedNonePool(t) ==
    /\ threads[t].op \in {"close", "get_connection"}
    /\ threads[t].err = "AttributeError"

(* C30: in no interleaving of close() and get_connection() calls does a    *)
(* call find self._pool set to None between its check and its use: no      *)
(* close() and no get_connection() context fails with the AttributeError   *)
(* of a None pool (which is also how an acquired connection would be left  *)
(* unreturned by the race).                                                *)
C30_NoUseOfClearedPool ==
    \A t \in Threads : ~UsedNonePool(t)

(* holds: the step in which a close() call returns leaves self._pool None, *)
(* and self._pool is assigned only by a thread that holds the lock         *)
CloseLeavesFactoryUninitialized ==
    [][/\ \A t \in Threads :
            /\ threads[t].op = "close"
            /\ threads[t].pc # "done"
            /\ threads'[t].pc = "done"
            => pool' = "none"
       /\ pool' # pool => lock # None]_vars

(* reached: two close() calls overlapped; both passed the test of          *)
(* self._pool, the first closed the pool, the second failed on None        *)
SecondCloseFailedOnNone ==
    \E t, u \in Threads :
       /\ t # u
       /\ threads[t].op = "close"
       /\ threads[t].pc = "done"
       /\ threads[t].err = ""
       /\ threads[u].op = "close"
       /\ threads[u].pc = "done"
       /\ threads[u].err = "AttributeError"

(* reached: close() ran between getconn and putconn of a context, whose    *)
(* putconn failed on None with the connection still checked out            *)
ConnectionLostToClose ==
    \E t \in Threads :
       /\ threads[t].op = "get_connection"
       /\ threads[t].pc = "done"
       /\ threads[t].conn # 0
       /\ threads[t].puts = 0
       /\ threads[t].err = "AttributeError"

====
